---------------------------- MODULE Spec2Model ----------------------------
(***************************************************************************)
(* PR reviewer assignment service (pr-service).                            *)
(*                                                                         *)
(* The persisted state is the three tables users, pull_requests and        *)
(* pr_reviewers.  The service operations CreatePR, MergePR,                *)
(* ReassignReviewer, SetIsActive and BulkDeactivateTeamMembers act on it;  *)
(* BulkDeactivateTeamMembers runs its loop inside ContextManager.Do and is *)
(* modelled one repository call per step, so that a concurrent MergePR     *)
(* request can land between two of its calls.                              *)
(***************************************************************************)
EXTENDS Integers, Sequences, FiniteSets, TLC

(***************************************************************************)
(* Universe of the model.                                                  *)
(***************************************************************************)
\* rows of table users; u1..u4 form team backend, u5 is the only member of payments
Users == {"u1", "u2", "u3", "u4", "u5"}

\* ORDER BY username of GetTeamMembers: the usernames sort like the ids
UserOrder == <<"u1", "u2", "u3", "u4", "u5">>

TeamOf(u) == IF u = "u5" THEN "payments" ELSE "backend"

\* pull request ids a CreatePR request may carry
PrIds == {"pr1", "pr2"}

\* authors a CreatePR request may name
Authors == {"u1"}

\* users a SetIsActive or ReassignReviewer request may name
ToggleUsers == {"u2", "u3", "u4"}

\* longest user_ids list of a bulk deactivation request
MaxReqLen == 2

\* deepest fmt.Errorf("...: %w", err) wrapping of an error in ErrorSpec
MaxWrap == 1

\* longest exclusion list handed to the strategy in StrategySpec
MaxExclude == 3

\* largest team snapshot handed to the strategy in StrategySpec
MaxTeam == 4

(***************************************************************************)
(* domain: errors (src/internal/domain/pullrequest.go 92-113); Nil is the   *)
(* nil error, ErrInternal any non-domain error of a repository call.       *)
(***************************************************************************)
Nil == ""
ErrNotFound == "NOT_FOUND"
ErrPRExists == "PR_EXISTS"
ErrPRMerged == "PR_MERGED"
ErrNotAssigned == "NOT_ASSIGNED"
ErrNoCandidate == "NO_CANDIDATE"
ErrInvalidArgument == "INVALID_ARGUMENT"
ErrInternal == "INTERNAL"
ErrTeamExists == "TEAM_EXISTS"

PRStatusOpen == "OPEN"
PRStatusMerged == "MERGED"

\* a nil *time.Time / NULL merged_at
NoTime == 0

(***************************************************************************)
(* Sequence helpers.                                                       *)
(***************************************************************************)
Range(s) == {s[i] : i \in 1..Len(s)}

Contains(s, x) == \E i \in 1..Len(s) : s[i] = x

\* all sequences over S of length lo..hi
SeqsOf(S, lo, hi) == UNION {[1..n -> S] : n \in lo..hi}

\* all orderings of the elements of a sequence (rand.Shuffle)
Shuffles(s) ==
    {[i \in 1..Len(s) |-> s[p[i]]] :
        p \in {q \in [1..Len(s) -> 1..Len(s)] : \A i, j \in 1..Len(s) : q[i] = q[j] => i = j}}

(***************************************************************************)
(* domain.Team                                                             *)
(***************************************************************************)
\* as GetActiveMembers, without the IsActive test
GetActiveMembers_AllMembers(team) == team.Members

\* Team.GetActiveMembers
GetActiveMembers(team) == SelectSeq(team.Members, LAMBDA m : m.IsActive)

\* as GetActiveMembersExcluding, without the test on the excluded id
GetActiveMembersExcluding_KeepsExcluded(team, userID) ==
    SelectSeq(team.Members, LAMBDA m : m.IsActive)

\* Team.GetActiveMembersExcluding
GetActiveMembersExcluding(team, userID) ==
    SelectSeq(team.Members, LAMBDA m : m.IsActive /\ m.UserID # userID)

(***************************************************************************)
(* assignment.Strategy.  The random source is a nondeterministic choice:   *)
(* each operator yields the set of results the call may return.            *)
(***************************************************************************)
\* as SelectReviewers, without the cut to two reviewers
SelectReviewers_NoCap(team, authorID) ==
    LET candidates == GetActiveMembersExcluding(team, authorID)
    IN  IF Len(candidates) = 0
        THEN {<<>>}
        ELSE {[i \in 1..Len(candidates) |-> shuffled[i].UserID] :
                 shuffled \in Shuffles(candidates)}

\* Strategy.SelectReviewers: shuffle the candidates, take the first min(2, n)
SelectReviewers(team, authorID) ==
    LET candidates == GetActiveMembersExcluding(team, authorID)
        maxReviewers == IF Len(candidates) < 2 THEN Len(candidates) ELSE 2
    IN  IF Len(candidates) = 0
        THEN {<<>>}
        ELSE {[i \in 1..maxReviewers |-> shuffled[i].UserID] : shuffled \in Shuffles(candidates)}

\* as FilterExcluded, keeping every candidate
FilterExcluded_KeepsAll(candidates, excludeUserIDs) == candidates

\* the filter loop of SelectReplacementReviewer
FilterExcluded(candidates, excludeUserIDs) ==
    SelectSeq(candidates, LAMBDA c : ~Contains(excludeUserIDs, c.UserID))

\* Strategy.SelectReplacementReviewer: one of the filtered members, or ErrNoCandidate
SelectReplacementReviewer(team, excludeUserIDs) ==
    LET filtered == FilterExcluded(GetActiveMembers(team), excludeUserIDs)
    IN  IF Len(filtered) = 0
        THEN {[id |-> "", err |-> ErrNoCandidate]}
        ELSE {[id |-> filtered[idx].UserID, err |-> Nil] : idx \in 1..Len(filtered)}


\* as TrimSpace, leaving the blanks in place
TrimSpace_Identity(s) == s

(***************************************************************************)
(* strings.TrimSpace on the strings a request may carry: the padded forms  *)
(* lose their blanks, a blank string becomes empty, the rest are unpadded. *)
(***************************************************************************)
TrimSpace(s) ==
    CASE s = " u2 " -> "u2"
      [] s = "u3 "  -> "u3"
      [] s = " "    -> ""
      [] OTHER      -> s

(***************************************************************************)
(* State.                                                                  *)
(***************************************************************************)
VARIABLES
    users,          \* table users: user_id -> [TeamName, IsActive]
    pull_requests,  \* table pull_requests: pull_request_id -> row or NoRow
    pr_reviewers,   \* table pr_reviewers: pull_request_id -> user ids by assigned_at
    now,            \* the latest reading of the wall clock (time.Now)
    call,           \* the BulkDeactivateTeamMembers call in flight: position and locals
    tx,             \* the transaction ContextManager.Do holds open for that call
    ret,            \* what the call that has just returned hands back, until it is delivered
    sel,            \* StrategySpec only: one call of the assignment strategy
    cm,             \* DoSpec only: one ContextManager.Do call, its context and transaction
    strategy,       \* LockSpec only: the Strategy's mutex and its concurrent callers
    procs,          \* ConcSpec only: the requests being served concurrently
    response        \* ErrorSpec only: an error on its way to the HTTP status and code

\* the variables of the specifications of a part on its own
aside == <<cm, strategy, procs, response>>

vars == <<users, pull_requests, pr_reviewers, now, call, tx, ret, sel, cm, strategy, procs,
          response>>

db == <<users, pull_requests, pr_reviewers>>

NoRow == [AuthorID |-> "", Status |-> "", MergedAt |-> NoTime]

\* the zero domain.PullRequest{} that error returns carry
NoPR == [PullRequestID |-> "", AuthorID |-> "", Status |-> "",
         AssignedReviewers |-> <<>>, MergedAt |-> NoTime]

\* domain.NewPullRequest
NewPullRequest(prID, authorID) ==
    [PullRequestID |-> prID, AuthorID |-> authorID, Status |-> PRStatusOpen,
     AssignedReviewers |-> <<>>, MergedAt |-> NoTime]

(***************************************************************************)
(* domain.PullRequest methods                                              *)
(***************************************************************************)
\* as IsMerged, never true
IsMerged_Never(pr) == FALSE

IsMerged(pr) == pr.Status = PRStatusMerged

\* as CanReassign, allowing every pull request
CanReassign_Always(pr) == TRUE

CanReassign(pr) == ~IsMerged(pr)

\* as IsReviewerAssigned, finding every user
IsReviewerAssigned_Always(pr, userID) == TRUE

IsReviewerAssigned(pr, userID) == Contains(pr.AssignedReviewers, userID)

\* as Merge, toggling the status of a merged pull request back
Merge_Reopens(pr, t) ==
    IF pr.Status = PRStatusMerged
    THEN [pr EXCEPT !.Status = PRStatusOpen, !.MergedAt = NoTime]
    ELSE [pr EXCEPT !.Status = PRStatusMerged, !.MergedAt = t]

\* as Merge, without the early return for a merged pull request
Merge_Restamps(pr, t) == [pr EXCEPT !.Status = PRStatusMerged, !.MergedAt = t]

\* PullRequest.Merge at time t: nothing when already merged
Merge(pr, t) ==
    IF IsMerged(pr) THEN pr
    ELSE [pr EXCEPT !.Status = PRStatusMerged, !.MergedAt = t]

\* PullRequest.ReplaceReviewer: the first occurrence of oldUserID becomes newUserID
ReplaceReviewer(pr, oldUserID, newUserID) ==
    IF IsMerged(pr) THEN [pr |-> pr, err |-> ErrPRMerged]
    ELSE IF ~IsReviewerAssigned(pr, oldUserID) THEN [pr |-> pr, err |-> ErrNotAssigned]
    ELSE LET i == CHOOSE k \in 1..Len(pr.AssignedReviewers) :
                    /\ pr.AssignedReviewers[k] = oldUserID
                    /\ \A j \in 1..(k - 1) : pr.AssignedReviewers[j] # oldUserID
         IN  [pr |-> [pr EXCEPT !.AssignedReviewers[i] = newUserID], err |-> Nil]

(***************************************************************************)
(* Repositories: each operator is one SQL statement on the table values    *)
(* it is given and yields the new table value and the error.               *)
(***************************************************************************)
\* userRepository.GetUser
GetUser(us, userID) ==
    IF userID \in DOMAIN us
    THEN [user |-> [UserID |-> userID, TeamName |-> us[userID].TeamName,
                    IsActive |-> us[userID].IsActive], err |-> Nil]
    ELSE [user |-> [UserID |-> "", TeamName |-> "", IsActive |-> FALSE], err |-> ErrNotFound]

\* userRepository.UpdateUser
UpdateUser(us, user) ==
    IF user.UserID \in DOMAIN us
    THEN [users |-> [us EXCEPT ![user.UserID] =
                        [TeamName |-> user.TeamName, IsActive |-> user.IsActive]],
          err |-> Nil]
    ELSE [users |-> us, err |-> ErrNotFound]

\* as GetTeamMembers, without the WHERE clause
GetTeamMembers_AllUsers(us, teamName) ==
    [i \in 1..Len(UserOrder) |->
        [UserID |-> UserOrder[i], TeamName |-> us[UserOrder[i]].TeamName,
         IsActive |-> us[UserOrder[i]].IsActive]]

\* userRepository.GetTeamMembers: WHERE team_name = $1 ORDER BY username
GetTeamMembers(us, teamName) ==
    LET all == [i \in 1..Len(UserOrder) |->
                   [UserID |-> UserOrder[i], TeamName |-> us[UserOrder[i]].TeamName,
                    IsActive |-> us[UserOrder[i]].IsActive]]
    IN  SelectSeq(all, LAMBDA m : m.TeamName = teamName)

\* userRepository.DeactivateUsers: is_active = false for the ids, all of which
\* must be members of the team, else NotFound for the whole batch
DeactivateUsers(us, teamName, userIDs) ==
    IF \A i \in 1..Len(userIDs) :
          userIDs[i] \in DOMAIN us /\ us[userIDs[i]].TeamName = teamName
    THEN [users |-> [u \in DOMAIN us |->
                        IF Contains(userIDs, u) THEN [us[u] EXCEPT !.IsActive = FALSE]
                        ELSE us[u]],
          err |-> Nil]
    ELSE [users |-> us, err |-> ErrNotFound]

\* prRepository.PRExists
PRExists(prs, prID) == prID \in DOMAIN prs /\ prs[prID] # NoRow

\* prRepository.GetPR: the row, then its reviewers ORDER BY assigned_at
GetPR(prs, revs, prID) ==
    IF PRExists(prs, prID)
    THEN [pr |-> [PullRequestID |-> prID, AuthorID |-> prs[prID].AuthorID,
                  Status |-> prs[prID].Status, AssignedReviewers |-> revs[prID],
                  MergedAt |-> prs[prID].MergedAt],
          err |-> Nil]
    ELSE [pr |-> NoPR, err |-> ErrNotFound]

\* prRepository.CreatePR: INSERT INTO pull_requests; the primary key rejects a second row
CreatePRRow(prs, pr) ==
    IF PRExists(prs, pr.PullRequestID)
    THEN [prs |-> prs, err |-> ErrInternal]
    ELSE [prs |-> [prs EXCEPT ![pr.PullRequestID] =
                      [AuthorID |-> pr.AuthorID, Status |-> pr.Status,
                       MergedAt |-> pr.MergedAt]],
          err |-> Nil]

\* prRepository.UpdatePR: UPDATE pull_requests SET author_id, status, merged_at
UpdatePR(prs, pr) ==
    IF PRExists(prs, pr.PullRequestID)
    THEN [prs |-> [prs EXCEPT ![pr.PullRequestID] =
                      [AuthorID |-> pr.AuthorID, Status |-> pr.Status,
                       MergedAt |-> pr.MergedAt]],
          err |-> Nil]
    ELSE [prs |-> prs, err |-> ErrNotFound]

\* as AssignReviewers, with the loop leaving after its first INSERT
AssignReviewers_FirstOnly(revs, prID, reviewers) ==
    IF Len(reviewers) = 0
    THEN [revs |-> revs, err |-> Nil]
    ELSE IF Contains(revs[prID], reviewers[1])
    THEN [revs |-> revs, err |-> ErrInternal]
    ELSE [revs |-> [revs EXCEPT ![prID] = Append(revs[prID], reviewers[1])], err |-> Nil]

\* prRepository.AssignReviewers: one plain INSERT per reviewer, in order; the
\* primary key (pull_request_id, user_id) rejects a repeated reviewer
AssignReviewers(revs, prID, reviewers) ==
    IF \/ \E i, j \in 1..Len(reviewers) : (i # j /\ reviewers[i] = reviewers[j])
       \/ \E i \in 1..Len(reviewers) : Contains(revs[prID], reviewers[i])
    THEN [revs |-> revs, err |-> ErrInternal]
    ELSE [revs |-> [revs EXCEPT ![prID] = revs[prID] \o reviewers], err |-> Nil]

\* as RemoveReviewer, with a DELETE that matches the row and removes nothing
RemoveReviewer_KeepsRow(revs, prID, userID) ==
    IF Contains(revs[prID], userID)
    THEN [revs |-> revs, err |-> Nil]
    ELSE [revs |-> revs, err |-> ErrNotFound]

\* prRepository.RemoveReviewer: DELETE; NotFound when no row was affected
RemoveReviewer(revs, prID, userID) ==
    IF Contains(revs[prID], userID)
    THEN [revs |-> [revs EXCEPT ![prID] = SelectSeq(revs[prID], LAMBDA r : r # userID)],
          err |-> Nil]
    ELSE [revs |-> revs, err |-> ErrNotFound]

\* as AddReviewer, with an INSERT that stores nothing
AddReviewer_StoresNothing(revs, prID, userID) == [revs |-> revs, err |-> Nil]

\* prRepository.AddReviewer: INSERT ... ON CONFLICT DO NOTHING
AddReviewer(revs, prID, userID) ==
    IF Contains(revs[prID], userID)
    THEN [revs |-> revs, err |-> Nil]
    ELSE [revs |-> [revs EXCEPT ![prID] = Append(revs[prID], userID)], err |-> Nil]

\* prRepository.GetOpenPRIDsByReviewer: the ids of the pull requests that are not
\* merged and have the user among their reviewers
GetOpenPRIDsByReviewer(prs, revs, userID) ==
    {p \in DOMAIN prs : PRExists(prs, p) /\ prs[p].Status # PRStatusMerged
                        /\ Contains(revs[p], userID)}

(***************************************************************************)
(* db.ContextManager.Do                                                    *)
(***************************************************************************)
NoTx == [open |-> FALSE, users |-> <<>>, pr_reviewers |-> <<>>]

\* ContextManager.begin: the statements of the unit of work act on the
\* transaction's own view of the tables it writes
Begin(us, revs) == [open |-> TRUE, users |-> us, pr_reviewers |-> revs]

\* as DoFinish, committing also when f returned an error
DoFinish_CommitsOnError(err, commitErr) ==
    IF commitErr # Nil THEN [persist |-> FALSE, err |-> commitErr]
    ELSE [persist |-> TRUE, err |-> err]

\* the deferred block of Do: roll back when f returned an error, else commit;
\* a failed commit persists nothing and is the error Do returns
DoFinish(err, commitErr) ==
    IF err # Nil THEN [persist |-> FALSE, err |-> err]
    ELSE IF commitErr # Nil THEN [persist |-> FALSE, err |-> commitErr]
    ELSE [persist |-> TRUE, err |-> Nil]

(***************************************************************************)
(* What a service call hands back.                                         *)
(***************************************************************************)
NoUser == [UserID |-> "", TeamName |-> "", IsActive |-> FALSE]

\* the arguments of a bulk deactivation, as received: no request
NoRequest == [team |-> "", ids |-> <<>>]

\* op names the call; done, skipped and calls record, for a bulk call, how many
\* replacements it had made, which pull requests it had skipped as merged,
\* for which target, the repository and strategy calls it had made, in
\* order, when it returned, and the request it served
NoRet ==
    [op |-> "none", err |-> Nil, pr |-> NoPR, newUserID |-> "", user |-> NoUser,
     team |-> <<>>, deactivated |-> <<>>, reassignments |-> <<>>,
     done |-> 0, skipped |-> {}, calls |-> <<>>, request |-> NoRequest]

\* one call the bulk deactivation made on a collaborator, with its arguments
\* and what it returned: userID is the reviewer removed or added, or the
\* replacement selected
Called(op, prID, userID, ids, err) ==
    [op |-> op, prID |-> prID, userID |-> userID, ids |-> ids, err |-> err]

ErrRet(op, err) == [NoRet EXCEPT !.op = op, !.err = err]

(***************************************************************************)
(* The bulk call in flight.                                                *)
(***************************************************************************)
IdleCall ==
    [pc |-> "idle", teamName |-> "", seen |-> {}, team |-> <<>>, futureTeam |-> <<>>,
     targets |-> <<>>, ti |-> 0, prIDs |-> {}, prID |-> "", pr |-> NoPR,
     newUserID |-> "", reassignments |-> <<>>, skipped |-> {},
     preUsers |-> <<>>, preReviewers |-> <<>>, request |-> NoRequest, log |-> <<>>]

InTxPcs == {"begin", "deactivate", "openprs", "getpr", "remove", "add", "commit"}

(***************************************************************************)
(* Requests.                                                               *)
(***************************************************************************)
\* user_ids entries of a well-formed bulk request
ReqIds == {"u2", "u3"}

\* bulk requests: every list of up to MaxReqLen team members, and the
\* requests with a blank, padded, repeated, foreign or unknown entry
BulkRequests ==
    {[team |-> "backend", ids |-> ids] : ids \in SeqsOf(ReqIds, 1, MaxReqLen)}
    \cup {[team |-> " ", ids |-> <<"u2">>],
          [team |-> "backend", ids |-> <<>>],
          [team |-> "backend", ids |-> <<"u2", " ">>],
          [team |-> "backend", ids |-> <<" u2 ", "u2">>],
          [team |-> "backend", ids |-> <<"u3 ", "u4">>],
          [team |-> "backend", ids |-> <<"u3", " u2 ", "u3">>],
          [team |-> "backend", ids |-> <<"u2", "u5">>],
          [team |-> "backend", ids |-> <<"u9">>],
          [team |-> "mobile", ids |-> <<"u2">>]}

\* the call of a unit of work that may fail with a database error
CreateFaults == {"none", "Begin", "CreatePR", "AssignReviewers", "Commit"}

ReassignFaults == {"none", "Begin", "RemoveReviewer", "AddReviewer", "Commit"}

\* no call of the strategy on its own
NoSel == [op |-> "none", team |-> [TeamName |-> "", Members |-> <<>>], authorID |-> "",
          exclude |-> <<>>, ids |-> <<>>, id |-> "", err |-> Nil]

\* no call is being served and the last response has been delivered
Ready == call.pc = "idle" /\ ret.op = "none"

\* no Do call has been made: no frame, no transaction, a context that is live
IdleDo ==
    [frames |-> <<>>, txn |-> "none", begins |-> 0, writes |-> 0, persisted |-> 0,
     cancelled |-> FALSE, txnAtCancel |-> "none", done |-> <<>>,
     out |-> [state |-> "none", err |-> Nil]]

\* the callers of the strategy whose calls overlap
Callers == {"c1", "c2", "c3"}

\* a caller that has made no call yet
IdleCaller == [pc |-> "idle", op |-> "", n |-> 0]

\* the strategy with its mutex free (mu names its holder) and nobody drawing
IdleStrategy == [mu |-> "", drawing |-> {}, callers |-> [c \in Callers |-> IdleCaller]]

\* the requests served concurrently
Procs == {"a", "b"}

\* a request slot that serves nothing; dels, adds and row are the statements of
\* its open transaction: deleted and inserted (pull request, user) rows of
\* pr_reviewers and the inserted row of pull_requests
IdleProc ==
    [op |-> "none", pc |-> "idle", prID |-> "", userID |-> "", pr |-> NoPR,
     reviewerIDs |-> <<>>, newUserID |-> "", dels |-> {}, adds |-> <<>>, row |-> FALSE,
     err |-> Nil]

IdleProcs == [i \in Procs |-> IdleProc]

\* no error has been raised
IdleResponse == [pc |-> "idle", err |-> <<>>, status |-> 0, code |-> "none",
                 mapped |-> [status |-> 0, code |-> "none"]]

\* the parts specified on their own are at rest
AsideIdle ==
    cm = IdleDo /\ strategy = IdleStrategy /\ procs = IdleProcs /\ response = IdleResponse

Init ==
    /\ users = [u \in Users |-> [TeamName |-> TeamOf(u), IsActive |-> TRUE]]
    /\ pull_requests = [p \in PrIds |-> NoRow]
    /\ pr_reviewers = [p \in PrIds |-> <<>>]
    /\ now = 1
    /\ call = IdleCall
    /\ tx = NoTx
    /\ ret = NoRet
    /\ sel = NoSel
    /\ AsideIdle

(***************************************************************************)
(* user.Service.SetIsActive                                                *)
(***************************************************************************)
SetIsActive(rawUserID, isActive) ==
    /\ Ready
    /\ LET userID == TrimSpace(rawUserID)
           got == GetUser(users, userID)
           user == [got.user EXCEPT !.IsActive = isActive]
           upd == UpdateUser(users, user)
       IN  IF userID = "" THEN
               /\ ret' = ErrRet("SetIsActive", ErrInvalidArgument)
               /\ UNCHANGED users
           ELSE IF got.err # Nil THEN
               /\ ret' = ErrRet("SetIsActive", got.err)
               /\ UNCHANGED users
           ELSE
               /\ users' = upd.users
               /\ ret' = [NoRet EXCEPT !.op = "SetIsActive", !.err = upd.err, !.user = user]
    /\ UNCHANGED <<pull_requests, pr_reviewers, now, call, tx, sel, aside>>

(***************************************************************************)
(* pullrequest.Service.CreatePR                                            *)
(***************************************************************************)
\* fault names the database call of the request that fails, if any
CreatePR(rawPrID, rawAuthorID) ==
    /\ Ready
    /\ LET prID == TrimSpace(rawPrID)
           authorID == TrimSpace(rawAuthorID)
           author == GetUser(users, authorID)
       IN  IF prID = "" \/ authorID = "" THEN
               /\ ret' = ErrRet("CreatePR", ErrInvalidArgument)
               /\ UNCHANGED <<pull_requests, pr_reviewers>>
           ELSE IF PRExists(pull_requests, prID) THEN
               /\ ret' = ErrRet("CreatePR", ErrPRExists)
               /\ UNCHANGED <<pull_requests, pr_reviewers>>
           ELSE IF author.err # Nil THEN
               /\ ret' = ErrRet("CreatePR", author.err)
               /\ UNCHANGED <<pull_requests, pr_reviewers>>
           ELSE
               LET team == [TeamName |-> author.user.TeamName,
                            Members |-> GetTeamMembers(users, author.user.TeamName)]
               IN  \E reviewerIDs \in SelectReviewers(team, authorID), fault \in CreateFaults :
                     LET pr == [NewPullRequest(prID, authorID) EXCEPT
                                   !.AssignedReviewers = reviewerIDs]
                         ins == IF fault = "CreatePR"
                                THEN [prs |-> pull_requests, err |-> ErrInternal]
                                ELSE CreatePRRow(pull_requests, pr)
                         asg == IF ins.err # Nil \/ Len(reviewerIDs) = 0
                                THEN [revs |-> pr_reviewers, err |-> ins.err]
                                ELSE IF fault = "AssignReviewers"
                                THEN [revs |-> pr_reviewers, err |-> ErrInternal]
                                ELSE AssignReviewers(pr_reviewers, prID, reviewerIDs)
                         fin == IF fault = "Begin"
                                THEN [persist |-> FALSE, err |-> ErrInternal]
                                ELSE DoFinish(asg.err,
                                              IF fault = "Commit" THEN ErrInternal ELSE Nil)
                     IN  /\ pull_requests' = IF fin.persist THEN ins.prs ELSE pull_requests
                         /\ pr_reviewers' = IF fin.persist THEN asg.revs ELSE pr_reviewers
                         /\ ret' = IF fin.err # Nil THEN ErrRet("CreatePR", fin.err)
                                   ELSE [NoRet EXCEPT !.op = "CreatePR", !.pr = pr]
    /\ UNCHANGED <<users, now, call, tx, sel, aside>>

(***************************************************************************)
(* pullrequest.Service.MergePR                                             *)
(***************************************************************************)
\* what MergePR does to the tables and hands back; time.Now() inside
\* PullRequest.Merge reads later than every earlier reading
MergeResult(rawPrID) ==
    LET prID == TrimSpace(rawPrID)
        got == GetPR(pull_requests, pr_reviewers, prID)
        pr == Merge(got.pr, now + 1)
        upd == UpdatePR(pull_requests, pr)
    IN  IF prID = "" THEN [prs |-> pull_requests, pr |-> NoPR, err |-> ErrInvalidArgument]
        ELSE IF got.err # Nil THEN [prs |-> pull_requests, pr |-> NoPR, err |-> got.err]
        ELSE IF upd.err # Nil THEN [prs |-> upd.prs, pr |-> NoPR, err |-> upd.err]
        ELSE [prs |-> upd.prs, pr |-> pr, err |-> Nil]

\* the clock after the call: it was read when the merge stamped merged_at
ClockAfter(prs) ==
    IF \E p \in DOMAIN prs : prs[p].MergedAt > now THEN now + 1 ELSE now

MergePR(rawPrID) ==
    /\ Ready
    /\ LET r == MergeResult(rawPrID)
       IN  /\ pull_requests' = r.prs
           /\ now' = ClockAfter(r.prs)
           /\ ret' = IF r.err # Nil THEN ErrRet("MergePR", r.err)
                     ELSE [NoRet EXCEPT !.op = "MergePR", !.pr = r.pr]
    /\ UNCHANGED <<users, pr_reviewers, call, tx, sel, aside>>

\* a MergePR request of another client served while the bulk call is in flight
MergeDuringBulk(rawPrID) ==
    /\ call.pc # "idle"
    /\ LET r == MergeResult(rawPrID)
       IN  /\ r.err = Nil
           /\ pull_requests' = r.prs
           /\ now' = ClockAfter(r.prs)
    /\ UNCHANGED <<users, pr_reviewers, call, tx, ret, sel, aside>>

(***************************************************************************)
(* pullrequest.Service.ReassignReviewer                                    *)
(***************************************************************************)
ReassignReviewer(rawPrID, rawOldUserID) ==
    /\ Ready
    /\ LET prID == TrimSpace(rawPrID)
           oldUserID == TrimSpace(rawOldUserID)
           got == GetPR(pull_requests, pr_reviewers, prID)
           pr == got.pr
           oldUser == GetUser(users, oldUserID)
       IN  IF prID = "" \/ oldUserID = "" THEN
               /\ ret' = ErrRet("ReassignReviewer", ErrInvalidArgument)
               /\ UNCHANGED pr_reviewers
           ELSE IF got.err # Nil THEN
               /\ ret' = ErrRet("ReassignReviewer", got.err)
               /\ UNCHANGED pr_reviewers
           ELSE IF ~CanReassign(pr) THEN
               /\ ret' = ErrRet("ReassignReviewer", ErrPRMerged)
               /\ UNCHANGED pr_reviewers
           ELSE IF ~IsReviewerAssigned(pr, oldUserID) THEN
               /\ ret' = ErrRet("ReassignReviewer", ErrNotAssigned)
               /\ UNCHANGED pr_reviewers
           ELSE IF oldUser.err # Nil THEN
               /\ ret' = ErrRet("ReassignReviewer", oldUser.err)
               /\ UNCHANGED pr_reviewers
           ELSE
               LET team == [TeamName |-> oldUser.user.TeamName,
                            Members |-> GetTeamMembers(users, oldUser.user.TeamName)]
                   excludeIDs == Append(pr.AssignedReviewers, pr.AuthorID)
               IN  \E chosen \in SelectReplacementReviewer(team, excludeIDs),
                      fault \in ReassignFaults :
                     IF chosen.err # Nil THEN
                         /\ ret' = ErrRet("ReassignReviewer", chosen.err)
                         /\ UNCHANGED pr_reviewers
                     ELSE
                         LET newUserID == chosen.id
                             rem == IF fault = "RemoveReviewer"
                                    THEN [revs |-> pr_reviewers, err |-> ErrInternal]
                                    ELSE RemoveReviewer(pr_reviewers, prID, oldUserID)
                             add == IF rem.err # Nil THEN rem
                                    ELSE IF fault = "AddReviewer"
                                    THEN [revs |-> rem.revs, err |-> ErrInternal]
                                    ELSE AddReviewer(rem.revs, prID, newUserID)
                             fin == IF fault = "Begin"
                                    THEN [persist |-> FALSE, err |-> ErrInternal]
                                    ELSE DoFinish(add.err,
                                                  IF fault = "Commit" THEN ErrInternal ELSE Nil)
                             rep == ReplaceReviewer(pr, oldUserID, newUserID)
                         IN  /\ pr_reviewers' = IF fin.persist THEN add.revs ELSE pr_reviewers
                             /\ ret' = IF fin.err # Nil
                                       THEN ErrRet("ReassignReviewer", fin.err)
                                       ELSE IF rep.err # Nil
                                       THEN ErrRet("ReassignReviewer", rep.err)
                                       ELSE [NoRet EXCEPT !.op = "ReassignReviewer",
                                                          !.pr = rep.pr,
                                                          !.newUserID = newUserID]
    /\ UNCHANGED <<users, pull_requests, now, call, tx, sel, aside>>

(***************************************************************************)
(* user.Service.BulkDeactivateTeamMembers                                  *)
(***************************************************************************)
\* as Normalize, keeping every occurrence
Normalize_KeepsRepeats(userIDs) == [i \in 1..Len(userIDs) |-> TrimSpace(userIDs[i])]

\* the normalisation loop: trimmed ids, each kept at its first occurrence
Normalize(userIDs) ==
    LET trimmed == [i \in 1..Len(userIDs) |-> TrimSpace(userIDs[i])]
        F[i \in 0..Len(trimmed)] ==
            IF i = 0 THEN <<>>
            ELSE IF Contains(F[i - 1], trimmed[i]) THEN F[i - 1]
            ELSE Append(F[i - 1], trimmed[i])
    IN  F[Len(trimmed)]

\* the member with this id, of a roster that has one
MemberByID(members, id) == members[CHOOSE i \in 1..Len(members) : members[i].UserID = id]

IsMember(members, id) == \E i \in 1..Len(members) : members[i].UserID = id

\* as Targets, in the order of the roster
Targets_ByRoster(members, normalized) ==
    LET picked == SelectSeq(members, LAMBDA m : Contains(normalized, m.UserID) /\ m.IsActive)
    IN  [i \in 1..Len(picked) |-> picked[i].UserID]

\* as Targets, keeping the inactive members
Targets_KeepsInactive(members, normalized) == normalized

\* targets: the requested members that are active, in request order
Targets(members, normalized) ==
    SelectSeq(normalized, LAMBDA id : MemberByID(members, id).IsActive)

\* as MarkInactive, leaving the copy as it was read
MarkInactive_Unmarked(members, seen) == members

\* the roster with every requested id marked inactive (futureTeam, and the
\* team returned on success)
MarkInactive(members, seen) ==
    [i \in 1..Len(members) |->
        IF members[i].UserID \in seen THEN [members[i] EXCEPT !.IsActive = FALSE]
        ELSE members[i]]

\* lines 105-178: validation, the roster, the targets, the future roster, and
\* the start of the unit of work
BulkCall(rawTeamName, userIDs) ==
    /\ Ready
    /\ LET teamName == TrimSpace(rawTeamName)
           normalized == Normalize(userIDs)
           seen == Range(normalized)
           members == GetTeamMembers(users, teamName)
           request == [team |-> rawTeamName, ids |-> userIDs]
       IN  IF teamName = "" \/ Len(userIDs) = 0 \/ "" \in seen THEN
               /\ ret' = [ErrRet("BulkDeactivateTeamMembers", ErrInvalidArgument) EXCEPT
                             !.request = request]
               /\ UNCHANGED <<call, tx>>
           ELSE IF Len(members) = 0 \/ \E id \in seen : ~IsMember(members, id) THEN
               /\ ret' = [ErrRet("BulkDeactivateTeamMembers", ErrNotFound) EXCEPT
                             !.request = request,
                             !.calls = <<Called("GetTeamMembers", "", "", <<>>, Nil)>>]
               /\ UNCHANGED <<call, tx>>
           ELSE IF Len(Targets(members, normalized)) = 0 THEN
               /\ ret' = [NoRet EXCEPT !.op = "BulkDeactivateTeamMembers", !.team = members,
                                       !.request = request,
                                       !.calls = <<Called("GetTeamMembers", "", "", <<>>, Nil)>>]
               /\ UNCHANGED <<call, tx>>
           ELSE
               /\ call' = [IdleCall EXCEPT
                              !.pc = "begin", !.teamName = teamName, !.seen = seen,
                              !.team = members,
                              !.futureTeam = MarkInactive(members, seen),
                              !.targets = Targets(members, normalized),
                              !.preUsers = users, !.preReviewers = pr_reviewers,
                              !.request = request,
                              !.log = <<Called("GetTeamMembers", "", "", <<>>, Nil)>>]
               /\ UNCHANGED <<tx, ret>>
    /\ UNCHANGED <<users, pull_requests, pr_reviewers, now, sel, aside>>

\* the end of Do and of the call (lines 228-240): fin is what Do decided
BulkReturn(fin, log) ==
    LET done == Len(call.reassignments)
    IN  /\ users' = IF fin.persist THEN tx.users ELSE users
        /\ pr_reviewers' = IF fin.persist THEN tx.pr_reviewers ELSE pr_reviewers
        /\ ret' = IF fin.err # Nil
                  THEN [ErrRet("BulkDeactivateTeamMembers", fin.err) EXCEPT
                           !.done = done, !.skipped = call.skipped, !.calls = log,
                           !.request = call.request]
                  ELSE [NoRet EXCEPT !.op = "BulkDeactivateTeamMembers",
                                     !.team = MarkInactive(call.team, call.seen),
                                     !.deactivated = call.targets,
                                     !.reassignments = call.reassignments,
                                     !.done = done,
                                     !.skipped = call.skipped,
                                     !.calls = log,
                                     !.request = call.request]
        /\ call' = IdleCall
        /\ tx' = NoTx
        /\ UNCHANGED <<pull_requests, now, sel, aside>>

\* as BulkExclude, without the author
BulkExclude_ReviewersOnly(pr) == pr.AssignedReviewers

\* lines 199-200: the exclusion list is the fetched reviewers, then the author
BulkExclude(pr) == Append(pr.AssignedReviewers, pr.AuthorID)

\* the loop control after the pull requests in prIDs of target ti are left to do
LoopOn(c, prIDs) ==
    IF prIDs # {} THEN [c EXCEPT !.pc = "getpr", !.prIDs = prIDs, !.prID = "", !.pr = NoPR,
                                 !.newUserID = ""]
    ELSE IF c.ti < Len(c.targets)
    THEN [c EXCEPT !.pc = "openprs", !.ti = c.ti + 1, !.prIDs = {}, !.prID = "",
                   !.pr = NoPR, !.newUserID = ""]
    ELSE [c EXCEPT !.pc = "commit", !.prIDs = {}, !.prID = "", !.pr = NoPR,
                   !.newUserID = ""]

\* line 178, Do's begin: the transaction is opened
BulkBegin ==
    /\ call.pc = "begin"
    /\ tx' = Begin(users, pr_reviewers)
    /\ call' = [call EXCEPT !.pc = "deactivate",
                            !.log = Append(@, Called("Begin", "", "", <<>>, Nil))]
    /\ UNCHANGED <<users, pull_requests, pr_reviewers, now, ret, sel, aside>>

\* as BulkDeactivate, handing DeactivateUsers the ids of the whole roster
BulkDeactivate_WholeRoster ==
    /\ call.pc = "deactivate"
    /\ LET r == DeactivateUsers(tx.users, call.teamName,
                                [i \in 1..Len(call.team) |-> call.team[i].UserID])
           log == Append(call.log, Called("DeactivateUsers", "", "", call.targets, r.err))
       IN  IF r.err # Nil THEN BulkReturn(DoFinish(r.err, Nil), log)
           ELSE /\ tx' = [tx EXCEPT !.users = r.users]
                /\ call' = [call EXCEPT !.pc = "openprs", !.ti = 1, !.log = log]
                /\ UNCHANGED <<users, pull_requests, pr_reviewers, now, ret, sel, aside>>

\* line 179: DeactivateUsers(txCtx, teamName, targetIDs)
BulkDeactivate ==
    /\ call.pc = "deactivate"
    /\ LET r == DeactivateUsers(tx.users, call.teamName, call.targets)
           log == Append(call.log, Called("DeactivateUsers", "", "", call.targets, r.err))
       IN  IF r.err # Nil THEN BulkReturn(DoFinish(r.err, Nil), log)
           ELSE /\ tx' = [tx EXCEPT !.users = r.users]
                /\ call' = [call EXCEPT !.pc = "openprs", !.ti = 1, !.log = log]
                /\ UNCHANGED <<users, pull_requests, pr_reviewers, now, ret, sel, aside>>

\* line 184: GetOpenPRIDsByReviewer(txCtx, target.UserID)
BulkOpenPRs ==
    /\ call.pc = "openprs"
    /\ call' = LoopOn([call EXCEPT !.log = Append(@, Called("GetOpenPRIDsByReviewer", "",
                                                          call.targets[call.ti], <<>>, Nil))],
                      GetOpenPRIDsByReviewer(pull_requests, tx.pr_reviewers,
                                             call.targets[call.ti]))
    /\ UNCHANGED <<users, pull_requests, pr_reviewers, now, tx, ret, sel, aside>>

\* as BulkGetPR, removing the old reviewer before the replacement is selected
BulkGetPR_RemovesFirst ==
    /\ call.pc = "getpr"
    /\ \E prID \in call.prIDs :
         LET got == GetPR(pull_requests, tx.pr_reviewers, prID)
             pr == got.pr
             exclude == BulkExclude(pr)
             futureTeam == [TeamName |-> call.teamName, Members |-> call.futureTeam]
             r == RemoveReviewer(tx.pr_reviewers, prID, call.targets[call.ti])
             log == Append(call.log, Called("GetPR", prID, "", <<>>, got.err))
             log1 == Append(log, Called("RemoveReviewer", prID, call.targets[call.ti],
                                        <<>>, r.err))
         IN  IF got.err # Nil THEN BulkReturn(DoFinish(got.err, Nil), log)
             ELSE IF IsMerged(pr) THEN
                 /\ call' = LoopOn([call EXCEPT !.log = log,
                                                !.skipped = @ \cup
                                       {[PullRequestID |-> prID,
                                         UserID |-> call.targets[call.ti]]}],
                                   call.prIDs \ {prID})
                 /\ UNCHANGED <<users, pull_requests, pr_reviewers, now, tx, ret, sel, aside>>
             ELSE IF r.err # Nil THEN BulkReturn(DoFinish(r.err, Nil), log1)
             ELSE
                 \E chosen \in SelectReplacementReviewer(futureTeam, exclude) :
                    LET log2 == Append(log1, Called("SelectReplacementReviewer", prID,
                                                    chosen.id, exclude, chosen.err))
                    IN
                    IF chosen.err # Nil THEN BulkReturn(DoFinish(chosen.err, Nil), log2)
                    ELSE /\ tx' = [tx EXCEPT !.pr_reviewers = r.revs]
                         /\ call' = [call EXCEPT !.pc = "add", !.prID = prID, !.pr = pr,
                                                 !.newUserID = chosen.id, !.log = log2]
                         /\ UNCHANGED <<users, pull_requests, pr_reviewers, now, ret, sel, aside>>

\* as BulkGetPR, fetching the reviewers as they were before the unit of work
BulkGetPR_StaleReviewers ==
    /\ call.pc = "getpr"
    /\ \E prID \in call.prIDs :
         LET got == GetPR(pull_requests, pr_reviewers, prID)
             pr == got.pr
             exclude == BulkExclude(pr)
             futureTeam == [TeamName |-> call.teamName, Members |-> call.futureTeam]
             log == Append(call.log, Called("GetPR", prID, "", <<>>, got.err))
         IN  IF got.err # Nil THEN BulkReturn(DoFinish(got.err, Nil), log)
             ELSE IF IsMerged(pr) THEN
                 /\ call' = LoopOn([call EXCEPT !.log = log,
                                                !.skipped = @ \cup
                                       {[PullRequestID |-> prID,
                                         UserID |-> call.targets[call.ti]]}],
                                   call.prIDs \ {prID})
                 /\ UNCHANGED <<users, pull_requests, pr_reviewers, now, tx, ret, sel, aside>>
             ELSE
                 \E chosen \in SelectReplacementReviewer(futureTeam, exclude) :
                    LET log2 == Append(log, Called("SelectReplacementReviewer", prID,
                                                   chosen.id, exclude, chosen.err))
                    IN
                    IF chosen.err # Nil THEN BulkReturn(DoFinish(chosen.err, Nil), log2)
                    ELSE /\ call' = [call EXCEPT !.pc = "remove", !.prID = prID, !.pr = pr,
                                                 !.newUserID = chosen.id, !.log = log2]
                         /\ UNCHANGED <<users, pull_requests, pr_reviewers, now, tx, ret,
                                        sel, aside>>

\* lines 189-205: the next pull request is fetched again; a merged one is
\* skipped, for an open one the replacement is selected from the future roster
BulkGetPR ==
    /\ call.pc = "getpr"
    /\ \E prID \in call.prIDs :
         LET got == GetPR(pull_requests, tx.pr_reviewers, prID)
             pr == got.pr
             exclude == BulkExclude(pr)
             futureTeam == [TeamName |-> call.teamName, Members |-> call.futureTeam]
             log == Append(call.log, Called("GetPR", prID, "", <<>>, got.err))
         IN  IF got.err # Nil THEN BulkReturn(DoFinish(got.err, Nil), log)
             ELSE IF IsMerged(pr) THEN
                 /\ call' = LoopOn([call EXCEPT !.log = log,
                                                !.skipped = @ \cup
                                       {[PullRequestID |-> prID,
                                         UserID |-> call.targets[call.ti]]}],
                                   call.prIDs \ {prID})
                 /\ UNCHANGED <<users, pull_requests, pr_reviewers, now, tx, ret, sel, aside>>
             ELSE
                 \E chosen \in SelectReplacementReviewer(futureTeam, exclude) :
                    LET log2 == Append(log, Called("SelectReplacementReviewer", prID,
                                                   chosen.id, exclude, chosen.err))
                    IN
                    IF chosen.err # Nil THEN BulkReturn(DoFinish(chosen.err, Nil), log2)
                    ELSE /\ call' = [call EXCEPT !.pc = "remove", !.prID = prID, !.pr = pr,
                                                 !.newUserID = chosen.id, !.log = log2]
                         /\ UNCHANGED <<users, pull_requests, pr_reviewers, now, tx, ret,
                                        sel, aside>>

\* line 207: RemoveReviewer(txCtx, prID, target.UserID)
BulkRemove ==
    /\ call.pc = "remove"
    /\ LET r == RemoveReviewer(tx.pr_reviewers, call.prID, call.targets[call.ti])
           log == Append(call.log, Called("RemoveReviewer", call.prID,
                                          call.targets[call.ti], <<>>, r.err))
       IN  IF r.err # Nil THEN BulkReturn(DoFinish(r.err, Nil), log)
           ELSE /\ tx' = [tx EXCEPT !.pr_reviewers = r.revs]
                /\ call' = [call EXCEPT !.pc = "add", !.log = log]
                /\ UNCHANGED <<users, pull_requests, pr_reviewers, now, ret, sel, aside>>

\* lines 211-223: AddReviewer(txCtx, prID, newUserID), the replacement in the
\* fetched pull request, and the Reassignment record
BulkAdd ==
    /\ call.pc = "add"
    /\ LET target == call.targets[call.ti]
           r == AddReviewer(tx.pr_reviewers, call.prID, call.newUserID)
           rep == ReplaceReviewer(call.pr, target, call.newUserID)
           log == Append(call.log, Called("AddReviewer", call.prID, call.newUserID,
                                          <<>>, r.err))
       IN  IF r.err # Nil THEN BulkReturn(DoFinish(r.err, Nil), log)
           ELSE IF rep.err # Nil THEN BulkReturn(DoFinish(rep.err, Nil), log)
           ELSE /\ tx' = [tx EXCEPT !.pr_reviewers = r.revs]
                /\ call' = LoopOn([call EXCEPT !.log = log, !.reassignments =
                                      Append(@, [PullRequestID |-> call.prID,
                                                 OldUserID |-> target,
                                                 NewUserID |-> call.newUserID])],
                                  call.prIDs \ {call.prID})
                /\ UNCHANGED <<users, pull_requests, pr_reviewers, now, ret, sel, aside>>

\* line 227 and Do's commit
BulkCommit ==
    /\ call.pc = "commit"
    /\ BulkReturn(DoFinish(Nil, Nil), Append(call.log, Called("Commit", "", "", <<>>, Nil)))

\* the database call the bulk call is about to make at each position
FaultedCall(pc) ==
    CASE pc = "begin"      -> "Begin"
      [] pc = "deactivate" -> "DeactivateUsers"
      [] pc = "openprs"    -> "GetOpenPRIDsByReviewer"
      [] pc = "getpr"      -> "GetPR"
      [] pc = "remove"     -> "RemoveReviewer"
      [] pc = "add"        -> "AddReviewer"
      [] OTHER             -> "Commit"

\* a database error: Do cannot begin (it returns before its deferred block),
\* or the repository call the unit of work is about to make fails, or the
\* commit does
BulkFault ==
    /\ call.pc \in InTxPcs
    /\ \E prID \in (IF call.pc = "getpr" THEN call.prIDs ELSE {call.prID}) :
         LET userID == CASE call.pc \in {"openprs", "remove"} -> call.targets[call.ti]
                         [] call.pc = "add" -> call.newUserID
                         [] OTHER -> ""
             ids == IF call.pc = "deactivate" THEN call.targets ELSE <<>>
             log == Append(call.log, Called(FaultedCall(call.pc), prID, userID, ids,
                                            ErrInternal))
         IN  IF call.pc = "begin"
             THEN BulkReturn([persist |-> FALSE, err |-> ErrInternal], log)
             ELSE IF call.pc = "commit" THEN BulkReturn(DoFinish(Nil, ErrInternal), log)
             ELSE BulkReturn(DoFinish(ErrInternal, Nil), log)

\* the handler writes the response of the call that returned
Respond ==
    /\ call.pc = "idle"
    /\ ret.op # "none"
    /\ ret' = NoRet
    /\ UNCHANGED <<users, pull_requests, pr_reviewers, now, call, tx, sel, aside>>

(***************************************************************************)
(* The assignment strategy on its own: one call of SelectReviewers or of   *)
(* SelectReplacementReviewer on any team snapshot, author and exclusion    *)
(* list; sel holds the arguments and then the result.                      *)
(***************************************************************************)
\* team snapshots: the first n users, each active or not
StrategyTeams ==
    UNION {{[TeamName |-> "backend",
             Members |-> [i \in 1..n |-> [UserID |-> UserOrder[i], TeamName |-> "backend",
                                          IsActive |-> act[i]]]] :
               act \in [1..n -> BOOLEAN]} : n \in 0..MaxTeam}

\* ids an exclusion list or an author argument may carry: members, and a stranger
StrategyIds == {"u1", "u2", "u3", "u9"}

StrategyInit ==
    /\ users = [u \in Users |-> [TeamName |-> TeamOf(u), IsActive |-> TRUE]]
    /\ pull_requests = [p \in PrIds |-> NoRow]
    /\ pr_reviewers = [p \in PrIds |-> <<>>]
    /\ now = 1
    /\ call = IdleCall
    /\ tx = NoTx
    /\ ret = NoRet
    /\ \E team \in StrategyTeams, authorID \in StrategyIds,
          exclude \in SeqsOf(StrategyIds, 0, MaxExclude) :
            sel = [NoSel EXCEPT !.team = team, !.authorID = authorID, !.exclude = exclude]
    /\ AsideIdle

\* s.SelectReviewers(ctx, team, authorID)
CallSelectReviewers ==
    /\ sel.op = "none"
    /\ \E ids \in SelectReviewers(sel.team, sel.authorID) :
          sel' = [sel EXCEPT !.op = "SelectReviewers", !.ids = ids, !.err = Nil]
    /\ UNCHANGED <<users, pull_requests, pr_reviewers, now, call, tx, ret, aside>>

\* s.SelectReplacementReviewer(ctx, team, excludeUserIDs)
CallSelectReplacementReviewer ==
    /\ sel.op = "none"
    /\ \E r \in SelectReplacementReviewer(sel.team, sel.exclude) :
          sel' = [sel EXCEPT !.op = "SelectReplacementReviewer", !.id = r.id, !.err = r.err]
    /\ UNCHANGED <<users, pull_requests, pr_reviewers, now, call, tx, ret, aside>>

StrategyNext == CallSelectReviewers \/ CallSelectReplacementReviewer

StrategySpec == StrategyInit /\ [][StrategyNext]_vars

(***************************************************************************)
(* ContextManager.Do on its own: one call Do(ctx, f) on a context without  *)
(* a transaction.  The callback f makes repository writes through the      *)
(* engine of its context, may call Do again with the context it was given, *)
(* and ends by returning nil, returning an error, or panicking.  The       *)
(* caller's context may be cancelled at any point.  txn is the state of    *)
(* the pgx transaction: none, open, committed, rolledback, or broken (the  *)
(* connection was dropped with the transaction open: nothing is stored).   *)
(***************************************************************************)
\* the longest callback, in repository writes and nested Do calls
MaxOps == 2

\* the callbacks of the outer call
Callbacks ==
    {[ops |-> o, end |-> e] : o \in SeqsOf({"write", "nest"}, 0, MaxOps),
                              e \in {"ok", "fail", "panic"}}

\* the callbacks of a nested call
InnerCallbacks ==
    {[ops |-> o, end |-> e] : o \in SeqsOf({"write"}, 0, 1), e \in {"ok", "fail", "panic"}}

\* the frame of a Do call whose callback f is running
DoFrame(f) == [pc |-> "callback", f |-> f, ops |-> f.ops, err |-> Nil, panicked |-> FALSE]

\* ContextManager.begin: a context that carries a transaction is returned as
\* it is; otherwise pool.Begin opens one, unless the context is done or the
\* pool fails
begin(c, carriesTx, fault) ==
    IF carriesTx THEN [cm |-> c, err |-> Nil]
    ELSE IF c.cancelled \/ fault
    THEN [cm |-> [c EXCEPT !.begins = @ + 1], err |-> ErrInternal]
    ELSE [cm |-> [c EXCEPT !.begins = @ + 1, !.txn = "open"], err |-> Nil]

\* as commit, with a context detached from cancellation
commit_Detached(c, fault) ==
    IF c.txn # "open" THEN [cm |-> c, err |-> ErrInternal]
    ELSE IF fault THEN [cm |-> [c EXCEPT !.txn = "broken"], err |-> ErrInternal]
    ELSE [cm |-> [c EXCEPT !.txn = "committed", !.persisted = c.writes], err |-> Nil]

\* ContextManager.commit: tx.Commit(ctx) on the transaction of the context; a
\* closed transaction answers with an error, and so does a context that is
\* done or a failing database, and then nothing is stored
commit(c, fault) ==
    IF c.txn # "open" THEN [cm |-> c, err |-> ErrInternal]
    ELSE IF c.cancelled \/ fault THEN [cm |-> [c EXCEPT !.txn = "broken"], err |-> ErrInternal]
    ELSE [cm |-> [c EXCEPT !.txn = "committed", !.persisted = c.writes], err |-> Nil]

\* ContextManager.rollback: tx.Rollback(ctx); detached says the context given
\* is the one made by context.WithoutCancel
rollback(c, detached) ==
    IF c.txn # "open" THEN [cm |-> c, err |-> ErrInternal]
    ELSE IF c.cancelled /\ ~detached
    THEN [cm |-> [c EXCEPT !.txn = "broken"], err |-> ErrInternal]
    ELSE [cm |-> [c EXCEPT !.txn = "rolledback"], err |-> Nil]

\* as deferred, committing also when f returned an error
deferred_CommitsOnError(panicked, err) == IF panicked THEN "repanic" ELSE "commit"

\* the deferred function of Do (lines 87-105): after a panic it rolls back and
\* panics again, after an error of f it rolls back, otherwise it commits
deferred(panicked, err) ==
    IF panicked THEN "repanic"
    ELSE IF err # Nil THEN "rollback"
    ELSE "commit"

DoInit ==
    /\ users = [u \in Users |-> [TeamName |-> TeamOf(u), IsActive |-> TRUE]]
    /\ pull_requests = [p \in PrIds |-> NoRow]
    /\ pr_reviewers = [p \in PrIds |-> <<>>]
    /\ now = 1
    /\ call = IdleCall
    /\ tx = NoTx
    /\ ret = NoRet
    /\ sel = NoSel
    /\ AsideIdle

DoUnchanged ==
    UNCHANGED <<users, pull_requests, pr_reviewers, now, call, tx, ret, sel, strategy, procs,
                response>>

\* Do(ctx, f), lines 80-84 and 107: begin, and f starts unless begin failed
Do(f) ==
    /\ cm.frames = <<>>
    /\ cm.out.state = "none"
    /\ \E fault \in BOOLEAN :
          LET b == begin(cm, FALSE, fault)
          IN  cm' = IF b.err # Nil
                    THEN [b.cm EXCEPT !.out = [state |-> "returned", err |-> b.err]]
                    ELSE [b.cm EXCEPT !.frames = <<DoFrame(f)>>]
    /\ DoUnchanged

\* f calls a repository method: the statement runs on the engine of the
\* context, the transaction, and fails when that is closed or the context done
CallbackWrite ==
    /\ cm.frames # <<>>
    /\ LET n == Len(cm.frames)
           fr == cm.frames[n]
       IN  /\ fr.pc = "callback"
           /\ fr.ops # <<>>
           /\ Head(fr.ops) = "write"
           /\ cm' = IF cm.txn = "open" /\ ~cm.cancelled
                     THEN [cm EXCEPT !.writes = @ + 1, !.frames[n].ops = Tail(fr.ops)]
                     ELSE [cm EXCEPT !.frames[n].err = ErrInternal, !.frames[n].pc = "defer"]
    /\ DoUnchanged

\* f calls Do(txCtx, g): begin finds the transaction in the context
CallbackNest ==
    /\ cm.frames # <<>>
    /\ LET n == Len(cm.frames)
           fr == cm.frames[n]
       IN  /\ fr.pc = "callback"
           /\ fr.ops # <<>>
           /\ Head(fr.ops) = "nest"
           /\ \E g \in InnerCallbacks :
                 LET b == begin(cm, TRUE, FALSE)
                 IN  cm' = [b.cm EXCEPT !.frames = Append(cm.frames, DoFrame(g))]
    /\ DoUnchanged

\* f comes to its end: it returns nil or an error, or panics
CallbackEnd ==
    /\ cm.frames # <<>>
    /\ LET n == Len(cm.frames)
           fr == cm.frames[n]
       IN  /\ fr.pc = "callback"
           /\ fr.ops = <<>>
           /\ cm' = [cm EXCEPT !.frames[n].pc = "defer",
                               !.frames[n].err = IF fr.f.end = "fail" THEN ErrNoCandidate
                                                 ELSE Nil,
                               !.frames[n].panicked = (fr.f.end = "panic")]
    /\ DoUnchanged

\* the deferred function runs and Do returns, or panics again, to its caller:
\* the outer callback, which passes on an error or a panic, or the caller of
\* the outer Do
DoDeferred ==
    /\ cm.frames # <<>>
    /\ LET n == Len(cm.frames)
           fr == cm.frames[n]
           d == deferred(fr.panicked, fr.err)
       IN  /\ fr.pc = "defer"
           /\ \E fault \in BOOLEAN :
                 LET r == CASE d = "repanic"  -> rollback(cm, TRUE)
                            [] d = "rollback" -> rollback(cm, FALSE)
                            [] OTHER          -> commit(cm, fault)
                     retErr == IF d = "commit" THEN r.err ELSE fr.err
                     finished == [depth |-> n, f |-> fr.f, cbErr |-> fr.err,
                                  panicked |-> fr.panicked, ended |-> d, endErr |-> r.err,
                                  retErr |-> retErr, txnBefore |-> cm.txn,
                                  txnAfter |-> r.cm.txn]
                     popped == [r.cm EXCEPT !.done = Append(@, finished),
                                            !.frames = SubSeq(cm.frames, 1, n - 1)]
                 IN  /\ (fault => d = "commit" /\ cm.txn = "open" /\ ~cm.cancelled)
                     /\ cm' = IF n = 1
                               THEN [popped EXCEPT !.out =
                                        [state |-> IF fr.panicked THEN "panicked"
                                                   ELSE "returned",
                                         err |-> retErr]]
                               ELSE IF fr.panicked
                               THEN [popped EXCEPT !.frames[n - 1].panicked = TRUE,
                                                   !.frames[n - 1].pc = "defer"]
                               ELSE IF retErr # Nil
                               THEN [popped EXCEPT !.frames[n - 1].err = retErr,
                                                   !.frames[n - 1].pc = "defer"]
                               ELSE [popped EXCEPT !.frames[n - 1].ops = Tail(@)]
    /\ DoUnchanged

\* the caller's context is cancelled or its deadline passes
Cancel ==
    /\ cm.out.state = "none"
    /\ ~cm.cancelled
    /\ cm' = [cm EXCEPT !.cancelled = TRUE, !.txnAtCancel = cm.txn]
    /\ DoUnchanged

DoNext ==
    \/ \E f \in Callbacks : Do(f)
    \/ CallbackWrite
    \/ CallbackNest
    \/ CallbackEnd
    \/ DoDeferred
    \/ Cancel

DoSpec == DoInit /\ [][DoNext]_vars

(***************************************************************************)
(* The Strategy under concurrent callers: every request handler calls the  *)
(* one Strategy of the process, with its one rng and its mutex mu.  A call *)
(* is followed from its candidate list to its return; drawing holds the    *)
(* callers that are inside rng.Shuffle or rng.Intn.                        *)
(***************************************************************************)
\* the lengths of the candidate list a call may have computed
CandidateCounts == {0, 1, 2}

LockInit ==
    /\ users = [u \in Users |-> [TeamName |-> TeamOf(u), IsActive |-> TRUE]]
    /\ pull_requests = [p \in PrIds |-> NoRow]
    /\ pr_reviewers = [p \in PrIds |-> <<>>]
    /\ now = 1
    /\ call = IdleCall
    /\ tx = NoTx
    /\ ret = NoRet
    /\ sel = NoSel
    /\ AsideIdle

LockUnchanged ==
    UNCHANGED <<users, pull_requests, pr_reviewers, now, call, tx, ret, sel, cm, procs,
                response>>

\* SelectReviewers (lines 31-35) or SelectReplacementReviewer (64-83) up to
\* the draw: with no candidate the call returns without drawing
StrategyCall(c, op, n) ==
    /\ strategy.callers[c].pc = "idle"
    /\ strategy' = [strategy EXCEPT !.callers[c] =
                        [pc |-> IF n = 0 THEN "returned" ELSE "lock", op |-> op, n |-> n]]
    /\ LockUnchanged

\* as Lock, entering without the mutex
Lock_NoWait(c) ==
    /\ strategy.callers[c].pc = "lock"
    /\ strategy' = [strategy EXCEPT !.callers[c].pc = "locked"]
    /\ LockUnchanged

\* s.mu.Lock() (lines 38, 86): proceeds only when the mutex is free
Lock(c) ==
    /\ strategy.callers[c].pc = "lock"
    /\ strategy.mu = ""
    /\ strategy' = [strategy EXCEPT !.mu = c, !.callers[c].pc = "locked"]
    /\ LockUnchanged

\* s.rng.Shuffle or s.rng.Intn is entered (lines 39, 87)
DrawBegin(c) ==
    /\ strategy.callers[c].pc = "locked"
    /\ strategy' = [strategy EXCEPT !.drawing = @ \cup {c}, !.callers[c].pc = "drawing"]
    /\ LockUnchanged

\* the draw returns; Intn panics on a length that is not positive, and
\* nothing is deferred that would unlock
DrawEnd(c) ==
    /\ strategy.callers[c].pc = "drawing"
    /\ strategy' = [strategy EXCEPT !.drawing = @ \ {c},
                                    !.callers[c].pc =
                                        IF strategy.callers[c].n <= 0 THEN "panicked"
                                        ELSE "unlock"]
    /\ LockUnchanged

\* s.mu.Unlock() (lines 42, 88)
Unlock(c) ==
    /\ strategy.callers[c].pc = "unlock"
    /\ strategy' = [strategy EXCEPT !.mu = IF strategy.mu = c THEN "" ELSE @,
                                    !.callers[c].pc = "returned"]
    /\ LockUnchanged

\* the call returns to the handler, which may call again
StrategyReturn(c) ==
    /\ strategy.callers[c].pc = "returned"
    /\ strategy' = [strategy EXCEPT !.callers[c] = IdleCaller]
    /\ LockUnchanged

LockNext ==
    \/ \E c \in Callers, op \in {"SelectReviewers", "SelectReplacementReviewer"},
          n \in CandidateCounts : StrategyCall(c, op, n)
    \/ \E c \in Callers : Lock(c)
    \/ \E c \in Callers : DrawBegin(c)
    \/ \E c \in Callers : DrawEnd(c)
    \/ \E c \in Callers : Unlock(c)
    \/ \E c \in Callers : StrategyReturn(c)

LockSpec == LockInit /\ [][LockNext]_vars

(***************************************************************************)
(* The service under requests.  A bulk deactivation is followed call by    *)
(* call; the other requests are served between bulk calls, and a merge     *)
(* request may also be served while a bulk call is in flight.              *)
(***************************************************************************)
Next ==
    \/ \E u \in ToggleUsers, b \in BOOLEAN : SetIsActive(u, b)
    \/ \E p \in PrIds, a \in Authors : CreatePR(p, a)
    \/ \E p \in PrIds : MergePR(p)
    \/ \E p \in PrIds : MergeDuringBulk(p)
    \/ \E p \in PrIds, u \in ToggleUsers : ReassignReviewer(p, u)
    \/ \E r \in BulkRequests : BulkCall(r.team, r.ids)
    \/ BulkBegin
    \/ BulkDeactivate
    \/ BulkOpenPRs
    \/ BulkGetPR
    \/ BulkRemove
    \/ BulkAdd
    \/ BulkCommit
    \/ BulkFault
    \/ Respond

Spec == Init /\ [][Next]_vars

(***************************************************************************)
(* Requests served concurrently.  Each slot of procs runs one call of      *)
(* ReassignReviewer, CreatePR or MergePR statement by statement against    *)
(* the committed tables, next to the bulk call; a statement that needs a   *)
(* row written by another open transaction waits (READ COMMITTED).         *)
(***************************************************************************)
\* the calls a slot may serve
ProcOps ==
    {[op |-> "ReassignReviewer", prID |-> "pr1", userID |-> u] : u \in {"u2", "u3"}}
    \cup {[op |-> "CreatePR", prID |-> "pr2", userID |-> "u1"],
          [op |-> "MergePR", prID |-> "pr1", userID |-> ""]}

\* as Get, handing out the pool whatever the context carries
Get_AlwaysPool(carriesTx) == "pool"

\* ContextManager.Get: the transaction the context carries, else the pool
Get(carriesTx) == IF carriesTx THEN "tx" ELSE "pool"

\* pr_reviewers after the DELETEs and then the INSERTs of a transaction
ApplyWrites(revs, dels, adds) ==
    [p \in DOMAIN revs |->
        LET mine == SelectSeq(adds, LAMBDA k : k[1] = p)
        IN  SelectSeq(revs[p], LAMBDA u : <<p, u>> \notin dels)
               \o [j \in 1..Len(mine) |-> mine[j][2]]]

\* as Held, with no statement waiting for the row of another transaction
Held_Nothing(i) == {}

\* the rows of pr_reviewers written by an open transaction other than i's
\* ("bulk" is the transaction of the bulk call)
Held(i) ==
    UNION {procs[j].dels \cup Range(procs[j].adds) : j \in Procs \ {i}}
    \cup (IF i # "bulk" /\ tx.open
          THEN {k \in PrIds \X Users :
                   Contains(pr_reviewers[k[1]], k[2]) # Contains(tx.pr_reviewers[k[1]], k[2])}
          ELSE {})

\* the call of slot i returns; a transaction still open is rolled back
Returned(p, err) ==
    [p EXCEPT !.pc = "returned", !.err = err, !.dels = {}, !.adds = <<>>, !.row = FALSE]

\* what the calls of the slots never touch
ProcFrame == UNCHANGED <<users, call, ret, sel, cm, strategy, response>>

\* rows reach the committed tables, and with them the statements of the bulk
\* call's transaction that run later
Store(dels, adds, row, pr) ==
    /\ pr_reviewers' = ApplyWrites(pr_reviewers, dels, adds)
    /\ pull_requests' = IF row THEN CreatePRRow(pull_requests, pr).prs ELSE pull_requests
    /\ tx' = IF tx.open THEN [tx EXCEPT !.pr_reviewers = ApplyWrites(@, dels, adds)] ELSE tx

\* Engine(ctx).Exec of slot i: the statement joins the transaction of the
\* context, or is committed on its own through the pool; next is the slot after it
ProcExec(i, carriesTx, dels, adds, row, next) ==
    IF Get(carriesTx) = "tx"
    THEN /\ procs' = [procs EXCEPT ![i] = [next EXCEPT !.dels = @ \cup dels,
                                                        !.adds = @ \o adds,
                                                        !.row = @ \/ row]]
         /\ UNCHANGED <<pull_requests, pr_reviewers, tx>>
    ELSE /\ procs' = [procs EXCEPT ![i] = next]
         /\ Store(dels, adds, row,
                  [NewPullRequest(next.prID, next.userID) EXCEPT
                      !.AssignedReviewers = next.reviewerIDs])

\* pr1 is open with two reviewers; nothing is in flight
ConcInit ==
    /\ users = [u \in Users |-> [TeamName |-> TeamOf(u), IsActive |-> TRUE]]
    /\ pull_requests = [p \in PrIds |->
                           IF p = "pr1"
                           THEN [AuthorID |-> "u1", Status |-> PRStatusOpen,
                                 MergedAt |-> NoTime]
                           ELSE NoRow]
    /\ pr_reviewers = [p \in PrIds |-> IF p = "pr1" THEN <<"u2", "u3">> ELSE <<>>]
    /\ now = 1
    /\ call = IdleCall
    /\ tx = NoTx
    /\ ret = NoRet
    /\ sel = NoSel
    /\ AsideIdle

\* a request arrives at a free slot
ProcCall(i, r) ==
    /\ procs[i].pc = "idle"
    /\ procs' = [procs EXCEPT ![i] =
                    [IdleProc EXCEPT !.op = r.op, !.prID = r.prID, !.userID = r.userID,
                                     !.pc = IF r.op = "CreatePR" THEN "exists" ELSE "getpr"]]
    /\ UNCHANGED <<pull_requests, pr_reviewers, now, tx>>
    /\ ProcFrame

\* ReassignReviewer lines 149-160, MergePR lines 123-126: GetPR on the pool
\* and the checks on what it returned
ProcGetPR(i) ==
    /\ procs[i].pc = "getpr"
    /\ LET p == procs[i]
           got == GetPR(pull_requests, pr_reviewers, p.prID)
       IN  procs' = [procs EXCEPT ![i] =
               IF got.err # Nil THEN Returned(p, got.err)
               ELSE IF p.op = "MergePR" THEN [p EXCEPT !.pc = "update", !.pr = got.pr]
               ELSE IF ~CanReassign(got.pr) THEN Returned(p, ErrPRMerged)
               ELSE IF ~IsReviewerAssigned(got.pr, p.userID) THEN Returned(p, ErrNotAssigned)
               ELSE [p EXCEPT !.pc = "roster", !.pr = got.pr]]
    /\ UNCHANGED <<pull_requests, pr_reviewers, now, tx>>
    /\ ProcFrame

\* CreatePR lines 66-72: PRExists on the pool
ProcExists(i) ==
    /\ procs[i].pc = "exists"
    /\ procs' = [procs EXCEPT ![i] =
                    IF PRExists(pull_requests, procs[i].prID)
                    THEN Returned(procs[i], ErrPRExists)
                    ELSE [procs[i] EXCEPT !.pc = "roster"]]
    /\ UNCHANGED <<pull_requests, pr_reviewers, now, tx>>
    /\ ProcFrame

\* ReassignReviewer lines 163-181, CreatePR lines 75-92: GetUser and
\* GetTeamMembers on the pool, then the strategy
ProcRoster(i) ==
    /\ procs[i].pc = "roster"
    /\ LET p == procs[i]
           user == GetUser(users, p.userID)
           team == [TeamName |-> user.user.TeamName,
                    Members |-> GetTeamMembers(users, user.user.TeamName)]
       IN  IF user.err # Nil THEN procs' = [procs EXCEPT ![i] = Returned(p, user.err)]
           ELSE IF p.op = "CreatePR" THEN
               \E reviewerIDs \in SelectReviewers(team, p.userID) :
                   procs' = [procs EXCEPT ![i] =
                                [p EXCEPT !.pc = "row", !.reviewerIDs = reviewerIDs]]
           ELSE
               \E chosen \in SelectReplacementReviewer(
                                 team, Append(p.pr.AssignedReviewers, p.pr.AuthorID)) :
                   procs' = [procs EXCEPT ![i] =
                                IF chosen.err # Nil THEN Returned(p, chosen.err)
                                ELSE [p EXCEPT !.pc = "remove", !.newUserID = chosen.id]]
    /\ UNCHANGED <<pull_requests, pr_reviewers, now, tx>>
    /\ ProcFrame

\* ReassignReviewer lines 184-188: Do begins and RemoveReviewer(txCtx) deletes
\* the row it sees, after the transaction that wrote it has ended; no row is
\* NotFound and Do rolls back
ProcRemove(i) ==
    /\ procs[i].pc = "remove"
    /\ LET p == procs[i]
           key == <<p.prID, p.userID>>
       IN  IF Contains(ApplyWrites(pr_reviewers, p.dels, p.adds)[p.prID], p.userID)
           THEN /\ key \notin Held(i)
                /\ ProcExec(i, TRUE, {key}, <<>>, FALSE, [p EXCEPT !.pc = "add"])
           ELSE /\ procs' = [procs EXCEPT ![i] = Returned(p, ErrNotFound)]
                /\ UNCHANGED <<pull_requests, pr_reviewers, tx>>
    /\ UNCHANGED now
    /\ ProcFrame

\* ReassignReviewer lines 190-193: AddReviewer(txCtx), INSERT ... ON CONFLICT
\* DO NOTHING, after the transaction that wrote the row has ended
ProcAdd(i) ==
    /\ procs[i].pc = "add"
    /\ LET p == procs[i]
           key == <<p.prID, p.newUserID>>
       IN  /\ key \notin Held(i)
           /\ ProcExec(i, TRUE, {},
                       IF Contains(ApplyWrites(pr_reviewers, p.dels, p.adds)[p.prID],
                                   p.newUserID)
                       THEN <<>> ELSE <<key>>,
                       FALSE, [p EXCEPT !.pc = "commit"])
    /\ UNCHANGED now
    /\ ProcFrame

\* CreatePR lines 95-98: Do begins and prRepo.CreatePR(txCtx) inserts the row,
\* after the transaction that inserted the same id has ended; the primary key
\* rejects a second row and Do rolls back
ProcRow(i) ==
    /\ procs[i].pc = "row"
    /\ LET p == procs[i]
       IN  /\ \A j \in Procs \ {i} : ~(procs[j].row /\ procs[j].prID = p.prID)
           /\ IF PRExists(pull_requests, p.prID)
              THEN /\ procs' = [procs EXCEPT ![i] = Returned(p, ErrInternal)]
                   /\ UNCHANGED <<pull_requests, pr_reviewers, tx>>
              ELSE ProcExec(i, TRUE, {}, <<>>, TRUE, [p EXCEPT !.pc = "assign"])
    /\ UNCHANGED now
    /\ ProcFrame

\* CreatePR lines 101-104: AssignReviewers(txCtx), one INSERT per reviewer
ProcAssign(i) ==
    /\ procs[i].pc = "assign"
    /\ LET p == procs[i]
       IN  ProcExec(i, TRUE, {}, [j \in 1..Len(p.reviewerIDs) |-> <<p.prID, p.reviewerIDs[j]>>],
                    FALSE, [p EXCEPT !.pc = "commit"])
    /\ UNCHANGED now
    /\ ProcFrame

\* Do's commit: the statements of the transaction reach the tables together;
\* ReassignReviewer then replaces the reviewer in the pull request it fetched
ProcCommit(i) ==
    /\ procs[i].pc = "commit"
    /\ LET p == procs[i]
           rep == ReplaceReviewer(p.pr, p.userID, p.newUserID)
           pr == [NewPullRequest(p.prID, p.userID) EXCEPT !.AssignedReviewers = p.reviewerIDs]
       IN  /\ Store(p.dels, p.adds, p.row, pr)
           /\ procs' = [procs EXCEPT ![i] =
                           IF p.op = "CreatePR" THEN [Returned(p, Nil) EXCEPT !.pr = pr]
                           ELSE IF rep.err # Nil THEN Returned(p, rep.err)
                           ELSE [Returned(p, Nil) EXCEPT !.pr = rep.pr]]
    /\ UNCHANGED now
    /\ ProcFrame

\* MergePR lines 128-133: Merge on the pull request that was fetched and
\* UpdatePR on the pool
ProcUpdate(i) ==
    /\ procs[i].pc = "update"
    /\ LET p == procs[i]
           pr == Merge(p.pr, now + 1)
           upd == UpdatePR(pull_requests, pr)
       IN  /\ pull_requests' = upd.prs
           /\ now' = ClockAfter(upd.prs)
           /\ procs' = [procs EXCEPT ![i] =
                           IF upd.err # Nil THEN Returned(p, upd.err)
                           ELSE [Returned(p, Nil) EXCEPT !.pr = pr]]
    /\ UNCHANGED <<pr_reviewers, tx>>
    /\ ProcFrame

\* the statement the bulk call is about to run does not wait for a row written
\* by the open transaction of a slot
BulkUnblocked ==
    CASE call.pc = "remove" ->
            \/ ~Contains(tx.pr_reviewers[call.prID], call.targets[call.ti])
            \/ <<call.prID, call.targets[call.ti]>> \notin Held("bulk")
      [] call.pc = "add" -> <<call.prID, call.newUserID>> \notin Held("bulk")
      [] OTHER -> TRUE

\* the bulk requests served next to the slots
ConcRequests == {[team |-> "backend", ids |-> <<"u2">>],
                 [team |-> "backend", ids |-> <<"u3", "u4">>]}

ConcNext ==
    \/ \E i \in Procs, r \in ProcOps : ProcCall(i, r)
    \/ \E i \in Procs : ProcGetPR(i)
    \/ \E i \in Procs : ProcExists(i)
    \/ \E i \in Procs : ProcRoster(i)
    \/ \E i \in Procs : ProcRemove(i)
    \/ \E i \in Procs : ProcAdd(i)
    \/ \E i \in Procs : ProcRow(i)
    \/ \E i \in Procs : ProcAssign(i)
    \/ \E i \in Procs : ProcCommit(i)
    \/ \E i \in Procs : ProcUpdate(i)
    \/ \E r \in ConcRequests : BulkCall(r.team, r.ids)
    \/ BulkBegin
    \/ BulkDeactivate
    \/ BulkOpenPRs
    \/ BulkGetPR
    \/ BulkUnblocked /\ BulkRemove
    \/ BulkUnblocked /\ BulkAdd
    \/ BulkCommit

ConcSpec == ConcInit /\ [][ConcNext]_vars

(***************************************************************************)
(* The bulk call on a team of five: u1 is the author of pr1, u2 and u3 are *)
(* its reviewers, u4 and u5 are the members a replacement can come from.   *)
(***************************************************************************)
PairRequests ==
    {[team |-> "backend", ids |-> ids] :
        ids \in {<<"u2", "u3">>, <<"u3", "u2">>, <<"u2">>, <<"u3", "u4">>}}

\* pr1 is open with reviewers u2 and u3; u4 and u5 are active or not; pr2 does
\* not exist or is open with u2, or u3 and u2, as reviewers
PairInit ==
    /\ \E a4, a5 \in BOOLEAN :
          users = [u \in Users |->
                      [TeamName |-> "backend",
                       IsActive |-> IF u = "u4" THEN a4 ELSE IF u = "u5" THEN a5 ELSE TRUE]]
    /\ \E revs2 \in {<<>>, <<"u2">>, <<"u3", "u2">>} :
          /\ pull_requests = [p \in PrIds |->
                                 IF p = "pr1" \/ revs2 # <<>>
                                 THEN [AuthorID |-> "u1", Status |-> PRStatusOpen,
                                       MergedAt |-> NoTime]
                                 ELSE NoRow]
          /\ pr_reviewers = [p \in PrIds |-> IF p = "pr1" THEN <<"u2", "u3">> ELSE revs2]
    /\ now = 1
    /\ call = IdleCall
    /\ tx = NoTx
    /\ ret = NoRet
    /\ sel = NoSel
    /\ AsideIdle

PairNext ==
    \/ \E r \in PairRequests : BulkCall(r.team, r.ids)
    \/ BulkBegin
    \/ BulkDeactivate
    \/ BulkOpenPRs
    \/ BulkGetPR
    \/ BulkRemove
    \/ BulkAdd
    \/ BulkCommit
    \/ BulkFault
    \/ \E p \in PrIds : MergeDuringBulk(p)

PairSpec == PairInit /\ [][PairNext]_vars

(***************************************************************************)
(* Errors on their way to the HTTP response: GetErrorCode, GetHTTPStatus   *)
(* (domain/pullrequest.go) and MapDomainError (middleware), each applied   *)
(* to one error.  An error is its chain, outermost wrapper first.          *)
(***************************************************************************)
DomainErrors == {ErrNotFound, ErrTeamExists, ErrPRExists, ErrPRMerged, ErrNotAssigned,
                 ErrNoCandidate, ErrInvalidArgument}

\* a domain error or another error, as it is or wrapped up to MaxWrap times
ErrorChains ==
    UNION {{[i \in 1..(n + 1) |-> IF i = n + 1 THEN b ELSE "wrapped"] :
               b \in DomainErrors \cup {ErrInternal}} : n \in 0..MaxWrap}

\* errors.Is: the target is the error or one it wraps
Is(err, target) == Contains(err, target)

GetErrorCode(err) ==
    CASE Is(err, ErrTeamExists) -> "TEAM_EXISTS"
      [] Is(err, ErrPRExists) -> "PR_EXISTS"
      [] Is(err, ErrPRMerged) -> "PR_MERGED"
      [] Is(err, ErrNotAssigned) -> "NOT_ASSIGNED"
      [] Is(err, ErrNoCandidate) -> "NO_CANDIDATE"
      [] Is(err, ErrNotFound) -> "NOT_FOUND"
      [] Is(err, ErrInvalidArgument) -> "INVALID_ARGUMENT"
      [] OTHER -> ""

GetHTTPStatus(err) ==
    CASE Is(err, ErrNotFound) -> 404
      [] Is(err, ErrTeamExists) -> 400
      [] Is(err, ErrPRExists) \/ Is(err, ErrPRMerged) \/ Is(err, ErrNotAssigned)
            \/ Is(err, ErrNoCandidate) -> 409
      [] Is(err, ErrInvalidArgument) -> 400
      [] OTHER -> 500

MapDomainError(err) ==
    CASE Is(err, ErrNotFound) -> [status |-> 404, code |-> "NOT_FOUND"]
      [] Is(err, ErrTeamExists) -> [status |-> 400, code |-> "TEAM_EXISTS"]
      [] Is(err, ErrPRExists) -> [status |-> 409, code |-> "PR_EXISTS"]
      [] Is(err, ErrPRMerged) -> [status |-> 409, code |-> "PR_MERGED"]
      [] Is(err, ErrNotAssigned) -> [status |-> 409, code |-> "NOT_ASSIGNED"]
      [] Is(err, ErrNoCandidate) -> [status |-> 409, code |-> "NO_CANDIDATE"]
      [] Is(err, ErrInvalidArgument) -> [status |-> 400, code |-> ""]
      [] OTHER -> [status |-> 500, code |-> ""]

ErrorInit ==
    /\ users = [u \in Users |-> [TeamName |-> TeamOf(u), IsActive |-> TRUE]]
    /\ pull_requests = [p \in PrIds |-> NoRow]
    /\ pr_reviewers = [p \in PrIds |-> <<>>]
    /\ now = 1
    /\ call = IdleCall
    /\ tx = NoTx
    /\ ret = NoRet
    /\ sel = NoSel
    /\ AsideIdle

ErrorUnchanged ==
    UNCHANGED <<users, pull_requests, pr_reviewers, now, call, tx, ret, sel, cm, strategy, procs>>

\* a handler is left with an error
Raise(err) ==
    /\ response.pc = "idle"
    /\ response' = [response EXCEPT !.pc = "raised", !.err = err]
    /\ ErrorUnchanged

ApplyGetHTTPStatus ==
    /\ response.pc = "raised"
    /\ response.status = 0
    /\ response' = [response EXCEPT !.status = GetHTTPStatus(response.err)]
    /\ ErrorUnchanged

ApplyGetErrorCode ==
    /\ response.pc = "raised"
    /\ response.code = "none"
    /\ response' = [response EXCEPT !.code = GetErrorCode(response.err)]
    /\ ErrorUnchanged

ApplyMapDomainError ==
    /\ response.pc = "raised"
    /\ response.mapped.status = 0
    /\ response' = [response EXCEPT !.mapped = MapDomainError(response.err)]
    /\ ErrorUnchanged

ErrorNext ==
    \/ \E err \in ErrorChains : Raise(err)
    \/ ApplyGetHTTPStatus
    \/ ApplyGetErrorCode
    \/ ApplyMapDomainError

ErrorSpec == ErrorInit /\ [][ErrorNext]_vars

(***************************************************************************)
(* Properties.                                                             *)
(***************************************************************************)
BulkOp == "BulkDeactivateTeamMembers"

\* the step on which the bulk call in flight returns
BulkReturns == call.pc \in InTxPcs /\ call'.pc = "idle"

\* C1: atomicity of BulkDeactivateTeamMembers.  Whenever the call returns an
\* error after its unit of work was entered, whichever step failed and however
\* many reassignments it had made, the is_active flag of every user and the
\* reviewer list of every pull request are the ones from before the call.
C1_BulkAtomicity ==
    [][(BulkReturns /\ ret'.err # Nil)
          => (users' = call.preUsers /\ pr_reviewers' = call.preReviewers)]_vars

\* a bulk call has failed after it had already replaced a reviewer
C1_Witness ==
    /\ ret.op = BulkOp
    /\ ret.err # Nil
    /\ ret.done >= 1

\* C2: future roster.  The new_user_id of every Reassignment record of a bulk
\* call, and the replacement selected for the pull request in hand, is never
\* one of the requested ids, active or already inactive at the start of the
\* call; in the returned team every such replacement is still active.
C2_FutureRoster ==
    /\ \A i \in 1..Len(call.reassignments) : call.reassignments[i].NewUserID \notin call.seen
    /\ call.pc \in {"remove", "add"} => call.newUserID \notin call.seen
    /\ (ret.op = BulkOp /\ ret.err = Nil) =>
          \A i \in 1..Len(ret.reassignments) :
             /\ ~Contains(ret.deactivated, ret.reassignments[i].NewUserID)
             /\ IsMember(ret.team, ret.reassignments[i].NewUserID)
             /\ MemberByID(ret.team, ret.reassignments[i].NewUserID).IsActive

\* the first replacement of a call was made while another requested user, still
\* active in the roster read at the start, was not a reviewer of that pull request
C2_Witness ==
    /\ call.pc = "add"
    /\ call.reassignments = <<>>
    /\ \E id \in call.seen :
          /\ id # call.targets[call.ti]
          /\ MemberByID(call.team, id).IsActive
          /\ ~Contains(call.pr.AssignedReviewers, id)

\* positions of the members of a team snapshot that are active and whose id is
\* none of ids
EligibleAt(team, ids) ==
    {i \in 1..Len(team.Members) :
        team.Members[i].IsActive /\ team.Members[i].UserID \notin ids}

\* C3: SelectReplacementReviewer, for every team snapshot and exclusion list,
\* returns NoCandidate exactly when no member of the snapshot is active and
\* outside the exclusion list, and else the id of such a member.
C3_ReplacementSelection ==
    sel.op = "SelectReplacementReviewer" =>
        LET eligible == EligibleAt(sel.team, Range(sel.exclude))
        IN  /\ sel.err \in {Nil, ErrNoCandidate}
            /\ sel.err = ErrNoCandidate <=> eligible = {}
            /\ sel.err = Nil => \E i \in eligible : sel.team.Members[i].UserID = sel.id

\* a replacement was returned although an active member was on the exclusion list
C3_Witness ==
    /\ sel.op = "SelectReplacementReviewer"
    /\ sel.err = Nil
    /\ \E i \in 1..Len(sel.team.Members) :
          /\ sel.team.Members[i].IsActive
          /\ sel.team.Members[i].UserID \in Range(sel.exclude)

\* C4: after a successful bulk call, for every returned Reassignment the
\* persisted reviewer list of its pull request holds the new user and not the
\* old one, every deactivated target is persisted inactive, and no open pull
\* request has a deactivated target among its reviewers.
C4_BulkPostcondition ==
    (ret.op = BulkOp /\ ret.err = Nil) =>
        /\ \A i \in 1..Len(ret.reassignments) :
              LET r == ret.reassignments[i]
              IN  /\ ~Contains(pr_reviewers[r.PullRequestID], r.OldUserID)
                  /\ Contains(pr_reviewers[r.PullRequestID], r.NewUserID)
        /\ \A i \in 1..Len(ret.deactivated) :
              /\ ~users[ret.deactivated[i]].IsActive
              /\ \A p \in PrIds :
                    (PRExists(pull_requests, p) /\ pull_requests[p].Status = PRStatusOpen)
                       => ~Contains(pr_reviewers[p], ret.deactivated[i])

\* a successful bulk call deactivated two users and replaced reviewers on two
\* pull requests that are still open
C4_Witness ==
    /\ ret.op = BulkOp
    /\ ret.err = Nil
    /\ Len(ret.deactivated) = 2
    /\ Len(ret.reassignments) >= 2
    /\ \A p \in PrIds : pull_requests[p].Status = PRStatusOpen

\* C5: every replacement the bulk call selects for a pull request is a member
\* of the roster read at the start of the call and active there, is not the
\* author of the pull request, and is not in its reviewer list as fetched
\* again just before the selection.
C5_BulkReplacement ==
    [][(call.pc = "getpr" /\ call'.pc = "remove") =>
          LET fetched == GetPR(pull_requests, tx.pr_reviewers, call'.prID).pr
          IN  /\ IsMember(call.team, call'.newUserID)
              /\ MemberByID(call.team, call'.newUserID).IsActive
              /\ MemberByID(call.team, call'.newUserID).TeamName = call.teamName
              /\ call'.newUserID # fetched.AuthorID
              /\ ~Contains(fetched.AssignedReviewers, call'.newUserID)
              /\ call'.pr = fetched]_vars

\* a replacement was selected for a pull request with two reviewers after an
\* earlier replacement in the same call
C5_Witness ==
    /\ call.pc = "remove"
    /\ Len(call.reassignments) >= 1
    /\ Len(call.pr.AssignedReviewers) = 2

\* pull request p, reviewed at the start of the call in flight by one of its
\* targets, has no member that is active in the future roster outside its
\* reviewers of then and its author
StuckAtStart(p) ==
    /\ PRExists(pull_requests, p)
    /\ \E i \in 1..Len(call.targets) : Contains(call.preReviewers[p], call.targets[i])
    /\ EligibleAt([Members |-> call.futureTeam],
                  Range(call.preReviewers[p]) \cup {pull_requests[p].AuthorID}) = {}

\* the pull request the call in flight fetches next, if it is p, is open and
\* has no member active in the future roster outside its reviewers and author
StuckNow(p) ==
    LET fetched == GetPR(pull_requests, tx.pr_reviewers, p).pr
    IN  /\ ~IsMerged(fetched)
        /\ EligibleAt([Members |-> call.futureTeam],
                      Range(fetched.AssignedReviewers) \cup {fetched.AuthorID}) = {}

\* C6: a bulk call cannot succeed while an open pull request reviewed by one of
\* its active targets has no active member of the future roster outside its
\* reviewers and author: the call never goes on to replace a reviewer of such
\* a pull request, it returns NoCandidate (or the database error that struck
\* first), and with NoCandidate every user keeps its is_active value and every
\* pull request its reviewer list.
C6_NoCandidateFailsAll ==
    [][/\ (call.pc = "getpr" /\ call'.pc = "remove") => ~StuckNow(call'.prID)
       /\ (call.pc = "getpr" /\ call' # call /\ \A p \in call.prIDs : StuckNow(p))
             => (BulkReturns /\ ret'.err \in {ErrNoCandidate, ErrInternal})
       /\ (BulkReturns /\ \E p \in PrIds :
                              StuckAtStart(p) /\ pull_requests[p].Status = PRStatusOpen)
             => ret'.err \in {ErrNoCandidate, ErrInternal}
       /\ (BulkReturns /\ ret'.err = ErrNoCandidate)
             => (users' = call.preUsers /\ pr_reviewers' = call.preReviewers)]_vars

\* the bulk call failed with NoCandidate where u2 and u3, the requested users,
\* each review one pull request and are each other's only active teammate
\* besides the author
C6_Witness ==
    /\ ret.op = BulkOp
    /\ ret.err = ErrNoCandidate
    /\ users["u2"].IsActive /\ users["u3"].IsActive /\ ~users["u4"].IsActive
    /\ pr_reviewers["pr1"] = <<"u2">> /\ pull_requests["pr1"].Status = PRStatusOpen
    /\ pr_reviewers["pr2"] = <<"u3">> /\ pull_requests["pr2"].Status = PRStatusOpen

\* C7: SelectReviewers returns exactly min(2, n) ids, n the number of active
\* members of the team other than the author; they are pairwise distinct,
\* active members of the team, never the author; for n = 0 the result is the
\* empty sequence and no error.
C7_InitialSelection ==
    sel.op = "SelectReviewers" =>
        LET eligible == EligibleAt(sel.team, {sel.authorID})
            n == Cardinality(eligible)
        IN  /\ sel.err = Nil
            /\ Len(sel.ids) = IF n < 2 THEN n ELSE 2
            /\ \A i, j \in 1..Len(sel.ids) : sel.ids[i] = sel.ids[j] => i = j
            /\ \A i \in 1..Len(sel.ids) :
                  /\ sel.ids[i] # sel.authorID
                  /\ \E k \in eligible : sel.team.Members[k].UserID = sel.ids[i]

\* two reviewers were selected from three candidates of a team whose author is
\* an active member
C7_Witness ==
    /\ sel.op = "SelectReviewers"
    /\ Len(sel.ids) = 2
    /\ Cardinality(EligibleAt(sel.team, {sel.authorID})) = 3
    /\ \E i \in 1..Len(sel.team.Members) :
          sel.team.Members[i].UserID = sel.authorID /\ sel.team.Members[i].IsActive

\* at most two reviewers, pairwise distinct, none of them the author
WellFormedReviewers(reviewers, authorID) ==
    /\ Len(reviewers) <= 2
    /\ \A i, j \in 1..Len(reviewers) : reviewers[i] = reviewers[j] => i = j
    /\ ~Contains(reviewers, authorID)

\* C8: in every state reachable by CreatePR, ReassignReviewer,
\* BulkDeactivateTeamMembers, MergePR and SetIsActive calls, every pull request
\* has at most 2 reviewers, pairwise distinct, and its author is not one of
\* them; so has every pull request a call hands back.
C8_ReviewerListShape ==
    /\ \A p \in PrIds :
          PRExists(pull_requests, p) =>
              WellFormedReviewers(pr_reviewers[p], pull_requests[p].AuthorID)
    /\ \A p \in PrIds : ~PRExists(pull_requests, p) => pr_reviewers[p] = <<>>
    /\ WellFormedReviewers(ret.pr.AssignedReviewers, ret.pr.AuthorID)

\* a successful bulk call replaced a reviewer of a pull request that has two
\* reviewers, the other one untouched
C8_Witness ==
    /\ ret.op = BulkOp
    /\ ret.err = Nil
    /\ \E i \in 1..Len(ret.reassignments) :
          /\ Len(pr_reviewers[ret.reassignments[i].PullRequestID]) = 2
          /\ pr_reviewers[ret.reassignments[i].PullRequestID][1] # ret.reassignments[i].NewUserID

\* the pull request is stored with status MERGED
StoredMerged(p) == PRExists(pull_requests, p) /\ pull_requests[p].Status = PRStatusMerged

\* C9: reassignment freeze.  ReassignReviewer on a pull request stored as
\* MERGED fails with PRMerged and writes nothing; a bulk call skips a pull
\* request it fetches again as MERGED without writing and without a record,
\* and when the call succeeds the skipped pull request still has the
\* deactivated user among its persisted reviewers and no Reassignment names
\* the two.
C9_ReassignmentFreeze ==
    [][/\ \A p \in PrIds, u \in ToggleUsers :
             (StoredMerged(p) /\ ReassignReviewer(p, u))
                => (ret'.err = ErrPRMerged /\ pr_reviewers' = pr_reviewers)
       /\ (call.pc = "getpr" /\ call'.skipped \ call.skipped # {}) =>
             /\ \A k \in call'.skipped \ call.skipped :
                   /\ StoredMerged(k.PullRequestID)
                   /\ k.PullRequestID \in call.prIDs
                   /\ k.UserID = call.targets[call.ti]
             /\ tx' = tx /\ pr_reviewers' = pr_reviewers
             /\ call'.reassignments = call.reassignments
             /\ call'.pc # "idle"
       /\ (call.pc = "getpr" /\ call' # call /\ \A p \in call.prIDs : StoredMerged(p))
             => (\/ call'.skipped \ call.skipped # {}
                 \/ BulkReturns /\ ret'.err = ErrInternal)
       /\ (BulkReturns /\ ret'.err = Nil) =>
             \A k \in ret'.skipped :
                /\ Contains(pr_reviewers'[k.PullRequestID], k.UserID)
                /\ \A i \in 1..Len(ret'.reassignments) :
                      ~(/\ ret'.reassignments[i].PullRequestID = k.PullRequestID
                        /\ ret'.reassignments[i].OldUserID = k.UserID)]_vars

\* a bulk call succeeded after it skipped a pull request that was merged
\* after the call had listed it; the deactivated user is still its reviewer
C9_Witness ==
    /\ ret.op = BulkOp
    /\ ret.err = Nil
    /\ \E k \in ret.skipped :
          /\ Contains(ret.deactivated, k.UserID)
          /\ Contains(pr_reviewers[k.PullRequestID], k.UserID)
          /\ StoredMerged(k.PullRequestID)

\* C10: merge idempotence.  MergePR on an existing pull request succeeds and
\* returns the pull request as it is then stored, with status MERGED; on a pull
\* request that is already merged it changes no stored value (status,
\* merged_at, reviewers) and returns the stored pull request.
C10_MergeIdempotent ==
    [][\A p \in PrIds :
          (PRExists(pull_requests, p) /\ MergePR(p)) =>
              /\ ret'.err = Nil
              /\ ret'.pr = GetPR(pull_requests', pr_reviewers', p).pr
              /\ ret'.pr.Status = PRStatusMerged
              /\ ret'.pr.MergedAt # NoTime
              /\ StoredMerged(p) =>
                    /\ pull_requests' = pull_requests
                    /\ pr_reviewers' = pr_reviewers
                    /\ ret'.pr = GetPR(pull_requests, pr_reviewers, p).pr]_vars

\* MergePR returned a pull request that had been merged before, at a time when
\* the clock had moved on since
C10_Witness ==
    /\ ret.op = "MergePR"
    /\ ret.err = Nil
    /\ ret.pr.MergedAt < now

\* C11: a pull request is created with status OPEN, and a stored status MERGED
\* stays MERGED under every CreatePR, MergePR, ReassignReviewer,
\* BulkDeactivateTeamMembers and SetIsActive call: the status changes at most
\* once, from OPEN to MERGED, and a stored pull request is never removed.
C11_StatusOnceMerged ==
    [][\A p \in PrIds :
          /\ (~PRExists(pull_requests, p) /\ PRExists(pull_requests', p))
                => pull_requests'[p].Status = PRStatusOpen
          /\ PRExists(pull_requests, p) =>
                /\ PRExists(pull_requests', p)
                /\ pull_requests'[p].Status \in {pull_requests[p].Status, PRStatusMerged}
          /\ StoredMerged(p) => pull_requests'[p].Status = PRStatusMerged]_vars

\* both pull requests are merged and one was merged once more after the other
C11_Witness ==
    /\ \A p \in PrIds : StoredMerged(p)
    /\ ret.op = "MergePR"
    /\ ret.err = Nil
    /\ ret.pr.MergedAt < now
    /\ \E p \in PrIds : pull_requests[p].MergedAt = now

\* the users that are active members of the team of user u and none of ids
ActiveTeammates(u, ids) ==
    {m \in Users : /\ users[m].TeamName = users[u].TeamName
                   /\ users[m].IsActive
                   /\ m \notin ids}

\* C12: ReassignReviewer fails with NotFound when the pull request does not
\* exist, with PRMerged when it is merged (whether or not the old reviewer is
\* assigned), with NotAssigned when it is open and the old reviewer is not in
\* its list, with NoCandidate when no active teammate of the old reviewer is
\* outside the reviewers and the author; each such failure changes no table.
C12_ReassignErrors ==
    [][\A p \in PrIds, u \in ToggleUsers :
          ReassignReviewer(p, u) =>
              /\ ~PRExists(pull_requests, p) => ret'.err = ErrNotFound
              /\ StoredMerged(p) => ret'.err = ErrPRMerged
              /\ (PRExists(pull_requests, p) /\ ~StoredMerged(p)
                    /\ u \notin Range(pr_reviewers[p])) => ret'.err = ErrNotAssigned
              /\ (PRExists(pull_requests, p) /\ ~StoredMerged(p)
                    /\ u \in Range(pr_reviewers[p])
                    /\ ActiveTeammates(u, Range(pr_reviewers[p])
                                             \cup {pull_requests[p].AuthorID}) = {})
                   => ret'.err = ErrNoCandidate
              /\ ret'.err # Nil =>
                    /\ users' = users
                    /\ pull_requests' = pull_requests
                    /\ pr_reviewers' = pr_reviewers
                    /\ ret'.pr = NoPR /\ ret'.newUserID = ""]_vars

\* ReassignReviewer returned PRMerged although no pull request has a reviewer:
\* the merged check came before the assignment check
C12_Witness ==
    /\ ret.op = "ReassignReviewer"
    /\ ret.err = ErrPRMerged
    /\ \A p \in PrIds : StoredMerged(p) /\ pr_reviewers[p] = <<>>

\* C13: after a successful ReassignReviewer(pr, old) the persisted reviewer
\* list of pr holds the returned new reviewer and not old; the new reviewer is
\* an active member of old's team, is not old, not the author and was not a
\* reviewer of pr before; the other reviewers of pr, and every other pull
\* request, are unchanged, and the returned pull request has the persisted
\* reviewers.
C13_ReassignSuccess ==
    [][\A p \in PrIds, u \in ToggleUsers :
          (ReassignReviewer(p, u) /\ ret'.err = Nil) =>
              LET new == ret'.newUserID
              IN  /\ u \in Range(pr_reviewers[p])
                  /\ u \notin Range(pr_reviewers'[p])
                  /\ new \in Range(pr_reviewers'[p])
                  /\ new \in Users
                  /\ users[new].IsActive
                  /\ users[new].TeamName = users[u].TeamName
                  /\ new # u
                  /\ new # pull_requests[p].AuthorID
                  /\ new \notin Range(pr_reviewers[p])
                  /\ Range(pr_reviewers'[p]) \ {new} = Range(pr_reviewers[p]) \ {u}
                  /\ Len(pr_reviewers'[p]) = Len(pr_reviewers[p])
                  /\ \A q \in PrIds \ {p} : pr_reviewers'[q] = pr_reviewers[q]
                  /\ users' = users /\ pull_requests' = pull_requests
                  /\ ret'.pr.PullRequestID = p
                  /\ Range(ret'.pr.AssignedReviewers) = Range(pr_reviewers'[p])]_vars

\* ReassignReviewer replaced the first of two reviewers of a pull request
C13_Witness ==
    /\ ret.op = "ReassignReviewer"
    /\ ret.err = Nil
    /\ Len(ret.pr.AssignedReviewers) = 2
    /\ ret.pr.AssignedReviewers[1] = ret.newUserID

\* pull request p is stored, open, and has the active user r among its reviewers
OpenReviewOf(p, r) ==
    /\ PRExists(pull_requests, p)
    /\ ~StoredMerged(p)
    /\ r \in Range(pr_reviewers[p])
    /\ users[r].IsActive

\* the results a replacement selection can have
SelectionOutcomes ==
    {[id |-> u, err |-> Nil] : u \in Users} \cup {[id |-> "", err |-> ErrNoCandidate]}

\* what ReassignReviewer(p, r) selects from the stored state: a replacement
\* among the roster of r's team, outside the reviewers of p and its author
ReassignChoices(p, r) ==
    SelectReplacementReviewer(
        [TeamName |-> users[r].TeamName,
         Members |-> GetTeamMembers(users, users[r].TeamName)],
        Append(pr_reviewers[p], pull_requests[p].AuthorID))

\* what BulkDeactivateTeamMembers(team of r, [r]) selects for p from the stored
\* state: a replacement among the roster with r marked inactive
BulkChoices(p, r) ==
    SelectReplacementReviewer(
        [TeamName |-> users[r].TeamName,
         Members |-> MarkInactive(GetTeamMembers(users, users[r].TeamName), {r})],
        BulkExclude(GetPR(pull_requests, pr_reviewers, p).pr))

\* the outcomes a ReassignReviewer(p, r) request can have now, database errors aside
ReassignMay(p, r) ==
    {o \in SelectionOutcomes :
        ENABLED (/\ ReassignReviewer(p, r)
                 /\ ret'.err = o.err
                 /\ ret'.newUserID = o.id)}

\* the outcomes the selection for p can have in the bulk call in flight
BulkMay(p) ==
    {o \in SelectionOutcomes :
        ENABLED (/\ BulkGetPR
                 /\ \/ /\ o.err = Nil
                       /\ call'.pc = "remove"
                       /\ call'.prID = p
                       /\ call'.newUserID = o.id
                    \/ /\ o.err = ErrNoCandidate
                       /\ call'.pc = "idle"
                       /\ ret'.err = ErrNoCandidate
                       /\ ret'.calls[Len(ret'.calls)].prID = p)}

\* the bulk call in flight deactivates the single user r and is about to fetch
\* a pull request
SingleTargetAt(r) ==
    /\ call.pc = "getpr"
    /\ call.seen = {r}
    /\ call.targets = <<r>>

\* C14: for every open pull request p and active reviewer r of p,
\* ReassignReviewer(p, r) and BulkDeactivateTeamMembers(team of r, [r]) agree on
\* the replacement for p: the ids one may choose are the ids the other may
\* choose, and one fails with NoCandidate exactly when the other does.
C14_ReassignMatchesBulk ==
    \A p \in PrIds, r \in ToggleUsers :
        OpenReviewOf(p, r) =>
            /\ ReassignChoices(p, r) = BulkChoices(p, r)
            /\ Ready => ReassignMay(p, r) = ReassignChoices(p, r)
            /\ (SingleTargetAt(r) /\ p \in call.prIDs) => BulkMay(p) = BulkChoices(p, r)

\* a bulk call for the single user r is about to replace r on a pull request
\* for which two replacements are possible
C14_Witness ==
    \E p \in PrIds, r \in ToggleUsers :
        /\ SingleTargetAt(r)
        /\ p \in call.prIDs
        /\ OpenReviewOf(p, r)
        /\ Cardinality(BulkMay(p)) = 2
        /\ Cardinality(ReassignChoices(p, r)) = 2

\* a string of blanks only
Blank(s) == s \in {"", " "}

\* a request with a blank team name, no ids, or a blank id anywhere in the list
Malformed(r) ==
    \/ Blank(r.team)
    \/ Len(r.ids) = 0
    \/ \E i \in 1..Len(r.ids) : Blank(r.ids[i])

\* C15: BulkDeactivateTeamMembers returns InvalidArgument, having made no
\* repository call and opened no transaction, when the team name is blank after
\* trimming, the id list is empty, or any id is blank after trimming, also when
\* that id follows valid ones; nothing stored changes.
C15_InvalidArgument ==
    [][\A r \in BulkRequests :
          (BulkCall(r.team, r.ids) /\ Malformed(r)) =>
              /\ ret'.op = BulkOp
              /\ ret'.err = ErrInvalidArgument
              /\ ret'.calls = <<>>
              /\ ret'.team = <<>> /\ ret'.deactivated = <<>> /\ ret'.reassignments = <<>>
              /\ call' = IdleCall
              /\ tx' = NoTx
              /\ UNCHANGED db]_vars

\* a request whose blank id follows the id of an active member was refused
\* without a call
C15_Witness ==
    /\ ret.op = BulkOp
    /\ ret.err = ErrInvalidArgument
    /\ ret.calls = <<>>
    /\ ret.request = [team |-> "backend", ids |-> <<"u2", " ">>]
    /\ users["u2"].IsActive
    /\ \E p \in PrIds : Contains(pr_reviewers[p], "u2") /\ ~StoredMerged(p)

\* the stored users of the team a request names
RosterOf(team) == {u \in Users : users[u].TeamName = TrimSpace(team)}

\* a well-formed request that names a team without members, or an id that is
\* not a member of the team
Foreign(r) ==
    /\ ~Malformed(r)
    /\ \/ RosterOf(r.team) = {}
       \/ \E i \in 1..Len(r.ids) : TrimSpace(r.ids[i]) \notin RosterOf(r.team)

\* C16: BulkDeactivateTeamMembers returns NotFound when the team has no
\* members or any requested id is not a member of it; no user is deactivated
\* and no reviewer changed, also when valid active ids precede the foreign one.
C16_NotFound ==
    [][\A r \in BulkRequests :
          (BulkCall(r.team, r.ids) /\ Foreign(r)) =>
              /\ ret'.op = BulkOp
              /\ ret'.err = ErrNotFound
              /\ ret'.calls = <<Called("GetTeamMembers", "", "", <<>>, Nil)>>
              /\ ret'.team = <<>> /\ ret'.deactivated = <<>> /\ ret'.reassignments = <<>>
              /\ call' = IdleCall
              /\ tx' = NoTx
              /\ UNCHANGED db]_vars

\* a request naming an active reviewer of the team and then a member of
\* another team was refused, and the reviewer is still active and assigned
C16_Witness ==
    /\ ret.op = BulkOp
    /\ ret.err = ErrNotFound
    /\ ret.request = [team |-> "backend", ids |-> <<"u2", "u5">>]
    /\ users["u2"].IsActive
    /\ \E p \in PrIds : Contains(pr_reviewers[p], "u2") /\ ~StoredMerged(p)

\* the ids a request names, trimmed
RequestedIds(r) == {TrimSpace(r.ids[i]) : i \in 1..Len(r.ids)}

\* a request that passes validation and names members of the team only
WellFormed(r) == ~Malformed(r) /\ ~Foreign(r)

\* C17: requested ids that are already inactive are ignored: they are never a
\* target, never in the deactivated list, never the old user of a Reassignment,
\* and they keep their reviews; when every requested id is already inactive the
\* call succeeds with empty lists and the team as read, having called neither
\* DeactivateUsers nor anything else after the roster lookup, and nothing
\* stored changes.
C17_InactiveIgnored ==
    [][/\ \A r \in BulkRequests :
            (/\ BulkCall(r.team, r.ids)
             /\ WellFormed(r)
             /\ \A u \in RequestedIds(r) : ~users[u].IsActive) =>
                /\ ret'.op = BulkOp
                /\ ret'.err = Nil
                /\ ret'.deactivated = <<>>
                /\ ret'.reassignments = <<>>
                /\ ret'.team = GetTeamMembers(users, TrimSpace(r.team))
                /\ \A i \in 1..Len(ret'.team) :
                      ret'.team[i].IsActive = users[ret'.team[i].UserID].IsActive
                /\ ret'.calls = <<Called("GetTeamMembers", "", "", <<>>, Nil)>>
                /\ call' = IdleCall
                /\ tx' = NoTx
                /\ UNCHANGED db
       /\ call'.pc # "idle" =>
            \A u \in RequestedIds(call'.request) :
                ~call'.preUsers[u].IsActive =>
                    /\ ~Contains(call'.targets, u)
                    /\ \A i \in 1..Len(call'.reassignments) :
                          call'.reassignments[i].OldUserID # u
                    /\ \A p \in PrIds :
                          (call'.pc # "begin" /\ Contains(call'.preReviewers[p], u))
                              => Contains(tx'.pr_reviewers[p], u)
       /\ BulkReturns =>
            \A u \in RequestedIds(call.request) :
                ~call.preUsers[u].IsActive =>
                    /\ ~Contains(ret'.deactivated, u)
                    /\ \A i \in 1..Len(ret'.reassignments) :
                          ret'.reassignments[i].OldUserID # u
                    /\ \A p \in PrIds :
                          Contains(pr_reviewers[p], u) => Contains(pr_reviewers'[p], u)
                    /\ \A i \in 1..Len(ret'.calls) :
                          ret'.calls[i].op = "DeactivateUsers" => ~Contains(ret'.calls[i].ids, u)
      ]_vars

\* a request for two members, both already inactive and one of them a
\* reviewer of an open pull request, succeeded with empty lists after the
\* roster lookup alone
C17_Witness ==
    /\ ret.op = BulkOp
    /\ ret.err = Nil
    /\ ret.request = [team |-> "backend", ids |-> <<"u2", "u3">>]
    /\ ret.deactivated = <<>>
    /\ ret.calls = <<Called("GetTeamMembers", "", "", <<>>, Nil)>>
    /\ \E p \in PrIds : Contains(pr_reviewers[p], "u2") /\ ~StoredMerged(p)

\* position k holds the first occurrence of its id in the list
FirstAt(ids, k) == \A j \in 1..(k - 1) : TrimSpace(ids[j]) # TrimSpace(ids[k])

\* seq lists, once each and in the order of their first occurrence in ids, the
\* ids that are active in us
FirstOccurrences(seq, ids, us) ==
    \E f \in [1..Len(seq) -> 1..Len(ids)] :
        /\ \A i \in 1..Len(seq) : seq[i] = TrimSpace(ids[f[i]]) /\ FirstAt(ids, f[i])
        /\ \A i, j \in 1..Len(seq) : i < j => f[i] < f[j]
        /\ \A k \in 1..Len(ids) :
              (FirstAt(ids, k) /\ us[TrimSpace(ids[k])].IsActive) => \E i \in 1..Len(seq) : f[i] = k
        /\ \A i \in 1..Len(seq) : us[seq[i]].IsActive

\* the targets whose open reviews the call has looked up, in order
Processed(log) ==
    LET looked == SelectSeq(log, LAMBDA c : c.op = "GetOpenPRIDsByReviewer" /\ c.err = Nil)
    IN  [i \in 1..Len(looked) |-> looked[i].userID]

\* no two records of the list are for the same pull request and old user
OnePerPair(reassignments) ==
    \A i, j \in 1..Len(reassignments) :
        (/\ reassignments[i].PullRequestID = reassignments[j].PullRequestID
         /\ reassignments[i].OldUserID = reassignments[j].OldUserID) => i = j

\* the request repeats an id, compared after trimming
Repeats(r) == \E k \in 1..Len(r.ids) : ~FirstAt(r.ids, k)

\* C18: whether or not the request repeats an id (compared after trimming),
\* the targets and the deactivated list hold each requested active id once, in
\* the order of first occurrence in the request; the open reviews of the
\* targets are looked up once each in that order; and no two Reassignments are
\* for the same pull request and old user.
C18_Deduplication ==
    [][/\ call'.pc # "idle" =>
            /\ FirstOccurrences(call'.targets, call'.request.ids, call'.preUsers)
            /\ Len(Processed(call'.log)) <= Len(call'.targets)
            /\ Processed(call'.log) = SubSeq(call'.targets, 1, Len(Processed(call'.log)))
            /\ OnePerPair(call'.reassignments)
       /\ (BulkReturns /\ ret'.err = Nil) =>
            /\ FirstOccurrences(ret'.deactivated, call.request.ids, call.preUsers)
            /\ Processed(ret'.calls) = ret'.deactivated
            /\ OnePerPair(ret'.reassignments)
      ]_vars

\* a request that names u3, then u2 with blanks around it, then u3 again has
\* returned each once, u3 first, with one replacement for u3
C18_Witness ==
    /\ ret.op = BulkOp
    /\ ret.err = Nil
    /\ Repeats(ret.request)
    /\ ret.request.ids = <<"u3", " u2 ", "u3">>
    /\ ret.deactivated = <<"u3", "u2">>
    /\ \E i \in 1..Len(ret.reassignments) : ret.reassignments[i].OldUserID = "u3"

\* the calls of a log that act on a pull request or look one up
PRCalls ==
    {"GetOpenPRIDsByReviewer", "GetPR", "SelectReplacementReviewer", "RemoveReviewer",
     "AddReviewer"}

\* the target whose reviews are being processed at position k of the log
TargetAt(log, k) ==
    LET lookups == {j \in 1..k : log[j].op = "GetOpenPRIDsByReviewer"}
    IN  log[CHOOSE j \in lookups : \A i \in lookups : i <= j].userID

\* the order of the calls in a log of the bulk unit of work
CallOrder(log) ==
    /\ \A i, j \in 1..Len(log) :
          (log[i].op = "DeactivateUsers" /\ log[j].op = "DeactivateUsers") => i = j
    /\ \A k \in 1..Len(log) :
          /\ log[k].op \in PRCalls \cup {"Commit"} =>
                \E j \in 1..(k - 1) : log[j].op = "DeactivateUsers" /\ log[j].err = Nil
          /\ log[k].op = "RemoveReviewer" =>
                /\ k > 1
                /\ log[k - 1].op = "SelectReplacementReviewer"
                /\ log[k - 1].prID = log[k].prID
                /\ log[k - 1].err = Nil
                /\ log[k - 1].userID \in Users
          /\ log[k].op = "AddReviewer" =>
                /\ k > 2
                /\ log[k - 1].op = "RemoveReviewer"
                /\ log[k - 1].prID = log[k].prID
                /\ log[k - 1].err = Nil
                /\ log[k].userID = log[k - 2].userID
          /\ (log[k].op = "SelectReplacementReviewer" /\ log[k].err = ErrNoCandidate) =>
                /\ k = Len(log)
                /\ \A j \in 1..Len(log) :
                      log[j].op \in {"RemoveReviewer", "AddReviewer"} =>
                          ~(log[j].prID = log[k].prID /\ TargetAt(log, j) = TargetAt(log, k))

\* C19: in the bulk unit of work DeactivateUsers is called once, with all
\* active targets, before any pull request lookup; RemoveReviewer is called only
\* right after SelectReplacementReviewer returned a replacement for the same
\* pull request, and AddReviewer only right after RemoveReviewer succeeded on
\* it; a NoCandidate result ends the call while the target is still a reviewer
\* of that pull request in the transaction.
C19_CallOrder ==
    [][/\ CallOrder(call'.log)
       /\ CallOrder(ret'.calls)
       /\ \A k \in 1..Len(call'.log) :
             call'.log[k].op = "DeactivateUsers" => call'.log[k].ids = call'.targets
       /\ BulkReturns =>
             /\ \A k \in 1..Len(ret'.calls) :
                   ret'.calls[k].op = "DeactivateUsers" => ret'.calls[k].ids = call.targets
             /\ ret'.err = Nil =>
                   \E k \in 1..Len(ret'.calls) :
                       /\ ret'.calls[k].op = "DeactivateUsers"
                       /\ ret'.calls[k].ids = ret'.deactivated
             /\ ret'.err = ErrNoCandidate =>
                   LET last == ret'.calls[Len(ret'.calls)]
                   IN  /\ last.op = "SelectReplacementReviewer"
                       /\ Contains(tx.pr_reviewers[last.prID], call.targets[call.ti])
      ]_vars

\* a bulk call replaced a reviewer on one pull request and then ended with
\* NoCandidate on another
C19_Witness ==
    /\ ret.op = BulkOp
    /\ ret.err = ErrNoCandidate
    /\ \E k \in 1..Len(ret.calls) : ret.calls[k].op = "AddReviewer" /\ ret.calls[k].err = Nil
    /\ ret.calls[Len(ret.calls)].op = "SelectReplacementReviewer"

\* the result of a successful call on request r, served when the users
\* were us: deactivated lists the requested ids active in us in request order,
\* and team is the roster of us with the requested ids inactive and the other
\* members as they were in us
SuccessShape(result, r, us) ==
    LET roster == GetTeamMembers(us, TrimSpace(r.team))
    IN  /\ FirstOccurrences(result.deactivated, r.ids, us)
        /\ Len(result.team) = Len(roster)
        /\ Len(result.team) = Cardinality({u \in Users : us[u].TeamName = TrimSpace(r.team)})
        /\ \A i \in 1..Len(roster) :
              /\ result.team[i].UserID = roster[i].UserID
              /\ result.team[i].TeamName = TrimSpace(r.team)
              /\ us[result.team[i].UserID].TeamName = TrimSpace(r.team)
              /\ result.team[i].IsActive =
                    IF result.team[i].UserID \in RequestedIds(r) THEN FALSE
                    ELSE us[result.team[i].UserID].IsActive

\* C20: a successful BulkDeactivateTeamMembers returns the requested ids that
\* were active at the start of the call, in request order, as the deactivated
\* list, and the team roster with every requested id inactive and every other
\* member as read at the start of the call.
C20_SuccessResult ==
    [][/\ (BulkReturns /\ ret'.err = Nil) =>
             /\ ret'.request = call.request
             /\ SuccessShape(ret', call.request, call.preUsers)
       /\ \A r \in BulkRequests :
             (BulkCall(r.team, r.ids) /\ ret'.op = BulkOp /\ ret'.err = Nil) =>
                 /\ ret'.request = r
                 /\ SuccessShape(ret', r, users)
       /\ \A r \in BulkRequests :
             (BulkCall(r.team, r.ids) /\ call'.pc # "idle") =>
                 /\ call'.request = r
                 /\ call'.preUsers = users
       /\ (call.pc # "idle" /\ call'.pc # "idle") =>
             /\ call'.request = call.request
             /\ call'.preUsers = call.preUsers
      ]_vars

\* a request for u3 and then u2, both active, succeeded while their teammate
\* u4 was inactive: u3 comes first in the deactivated list and u4 is returned
\* inactive as it was read
C20_Witness ==
    /\ ret.op = BulkOp
    /\ ret.err = Nil
    /\ ret.request = [team |-> "backend", ids |-> <<"u3", "u2">>]
    /\ ret.deactivated = <<"u3", "u2">>
    /\ \E i \in 1..Len(ret.team) : ret.team[i].UserID = "u4" /\ ~ret.team[i].IsActive
    /\ \E i \in 1..Len(ret.team) : ret.team[i].UserID = "u1" /\ ret.team[i].IsActive
    /\ \E i \in 1..Len(ret.team) : ret.team[i].UserID = "u2" /\ ~ret.team[i].IsActive

\* the (pull request, old user) pairs of a list of Reassignment records
Pairs(reassignments) ==
    {[PullRequestID |-> reassignments[i].PullRequestID,
      UserID |-> reassignments[i].OldUserID] : i \in 1..Len(reassignments)}

\* C21: a successful bulk call returns exactly one Reassignment for every
\* target and pull request such that the target was a reviewer of it at the
\* start and it was open when fetched, and no other record: none for a pull
\* request found merged, none for a target without open reviews, which is
\* deactivated all the same; every record names a deactivated target as old
\* user and a different new user.
C21_ReassignmentRecords ==
    [][/\ (BulkReturns /\ ret'.err = Nil) =>
             /\ OnePerPair(ret'.reassignments)
             /\ \A i \in 1..Len(ret'.reassignments) :
                   LET rec == ret'.reassignments[i]
                   IN  /\ Contains(ret'.deactivated, rec.OldUserID)
                       /\ rec.NewUserID # rec.OldUserID
                       /\ rec.NewUserID \in Users
                       /\ PRExists(pull_requests, rec.PullRequestID)
                       /\ Contains(call.preReviewers[rec.PullRequestID], rec.OldUserID)
             /\ Pairs(ret'.reassignments) \cap ret'.skipped = {}
             /\ \A k \in ret'.skipped : StoredMerged(k.PullRequestID)
             /\ \A t \in Range(ret'.deactivated), p \in PrIds :
                   (/\ PRExists(pull_requests, p)
                    /\ ~StoredMerged(p)
                    /\ Contains(call.preReviewers[p], t))
                       => [PullRequestID |-> p, UserID |-> t] \in Pairs(ret'.reassignments)
             /\ \A t \in Range(ret'.deactivated) : ~users'[t].IsActive
       /\ (call.pc = "openprs" /\ call'.pc = "getpr") =>
             \A p \in call'.prIDs :
                 ~StoredMerged(p) /\ Contains(tx.pr_reviewers[p], call.targets[call.ti])
       /\ (call'.pc # "idle" /\ Len(call'.reassignments) > Len(call.reassignments)) =>
             /\ call.pc = "add"
             /\ call.pr.Status = PRStatusOpen
             /\ call.pr.PullRequestID = call.prID
             /\ call'.reassignments =
                   Append(call.reassignments,
                          [PullRequestID |-> call.prID, OldUserID |-> call.targets[call.ti],
                           NewUserID |-> call.newUserID])
      ]_vars

\* a bulk call deactivated two users: one was replaced on an open pull
\* request, the other reviewed only a merged pull request and got no record
C21_Witness ==
    /\ ret.op = BulkOp
    /\ ret.err = Nil
    /\ Len(ret.deactivated) = 2
    /\ Len(ret.reassignments) = 1
    /\ ret.skipped = {}
    /\ \E t \in Range(ret.deactivated) :
          /\ t \notin {k.UserID : k \in Pairs(ret.reassignments)}
          /\ \E p \in PrIds : StoredMerged(p) /\ Contains(pr_reviewers[p], t)

\* the callback runs no nested Do
Flat(f) == ~Contains(f.ops, "nest")

\* C22: every Do call ends its callback with exactly one call, commit or
\* rollback: commit if and only if the callback returned no error and did not
\* panic; after an error it rolls back and returns that error; after a panic it
\* rolls back and panics again; a failed commit is returned as the error; no
\* commit follows a failed callback and no success is returned without a
\* successful commit.  A call that began a transaction leaves it ended, and
\* when its callback runs no nested Do the transaction is committed exactly
\* when the call returns success.
C22_DoEndsTransaction ==
    /\ \A i \in 1..Len(cm.done) :
          LET d == cm.done[i]
          IN  /\ d.ended \in {"commit", "rollback", "repanic"}
              /\ d.ended = "commit" <=> (d.cbErr = Nil /\ ~d.panicked)
              /\ d.ended = "rollback" <=> (d.cbErr # Nil /\ ~d.panicked)
              /\ d.ended = "repanic" <=> d.panicked
              /\ d.ended = "rollback" => d.retErr = d.cbErr
              /\ d.ended = "commit" => d.retErr = d.endErr
              /\ d.depth = 1 => (d.txnBefore # "none" /\ d.txnAfter # "open")
              /\ (d.txnBefore = "open" /\ d.txnAfter = "committed") =>
                    (d.cbErr = Nil /\ ~d.panicked /\ d.retErr = Nil)
              /\ (d.retErr = Nil /\ ~d.panicked) =>
                    (d.txnBefore = "open" /\ d.txnAfter = "committed")
    /\ cm.begins <= 1
    /\ cm.out.state # "none" =>
          /\ cm.frames = <<>>
          /\ cm.txn # "open"
          /\ cm.begins = 1
          /\ cm.txn # "none" =>
                /\ Len(cm.done) >= 1
                /\ cm.done[Len(cm.done)].depth = 1
                /\ cm.out.state = "panicked" <=> cm.done[Len(cm.done)].panicked
                /\ cm.out.err = cm.done[Len(cm.done)].retErr
                /\ (cm.out.state = "returned" /\ cm.out.err = Nil) =>
                      (cm.txn = "committed" /\ cm.persisted = cm.writes)
                /\ Flat(cm.done[Len(cm.done)].f) =>
                      /\ Len(cm.done) = 1
                      /\ cm.txn = "committed" <=>
                            (cm.out.state = "returned" /\ cm.out.err = Nil)
                      /\ cm.txn # "committed" => cm.persisted = 0

\* a Do call whose callback wrote twice returned the error of a commit that
\* failed, and nothing is stored
C22_Witness ==
    /\ cm.out.state = "returned"
    /\ cm.out.err = ErrInternal
    /\ ~cm.cancelled
    /\ cm.writes = 2
    /\ cm.persisted = 0
    /\ Len(cm.done) = 1
    /\ cm.done[1].ended = "commit"
    /\ cm.done[1].cbErr = Nil

\* C23: a Do call made with a context that already carries a transaction
\* begins no second transaction and neither commits nor rolls back the one it
\* found: the transaction is open when the nested call returns to the outer
\* callback, whose later writes are part of the same unit of work, and only
\* the outermost call ends it.
C23_ReentrantNesting ==
    /\ cm.begins <= 1
    /\ \A i \in 1..Len(cm.done) :
          cm.done[i].depth > 1 =>
              /\ cm.done[i].txnBefore = "open"
              /\ cm.done[i].txnAfter = "open"
    /\ \A n \in 1..Len(cm.frames) :
          (cm.frames[n].pc = "callback" /\ ~cm.cancelled) => cm.txn = "open"

\* C26: when the caller's context is cancelled while the unit of work is in
\* flight and no commit has completed, nothing the call wrote is ever stored:
\* the transaction is never committed, it is ended without commit when the
\* call is over, and the call does not return success.
C26_CancelRollsBack ==
    (cm.cancelled /\ cm.txnAtCancel \in {"none", "open"}) =>
        /\ cm.txn # "committed"
        /\ cm.persisted = 0
        /\ \A i \in 1..Len(cm.done) : cm.done[i].txnAfter # "committed"
        /\ cm.out.state # "none" =>
              /\ cm.txn \in {"none", "rolledback", "broken"}
              /\ cm.out.state = "returned" => cm.out.err # Nil

\* the context was cancelled after the callback had made its two writes and
\* returned nil, before the commit: the call returned an error and nothing
\* is stored
C26_Witness ==
    /\ cm.cancelled
    /\ cm.txnAtCancel = "open"
    /\ cm.writes = 2
    /\ cm.out.state = "returned"
    /\ Len(cm.done) = 1
    /\ cm.done[1].cbErr = Nil
    /\ cm.done[1].ended = "commit"
    /\ cm.persisted = 0

C27_OpenReviewersActive ==
    \A p \in PrIds :
        (PRExists(pull_requests, p) /\ ~StoredMerged(p)) =>
            \A r \in Range(pr_reviewers[p]) : users[r].IsActive

\* the active members of the author's team other than the author, in
\* username order
CreateCandidates(authorID) ==
    SelectSeq(GetTeamMembers(users, TeamOf(authorID)),
              LAMBDA m : m.IsActive /\ m.UserID # authorID)

\* C28: CreatePR.  On a new id the call that succeeds stores the pull request
\* as OPEN with min(2, n) reviewers, n the number of active members of the
\* author's team other than the author, pairwise distinct and drawn from
\* those members, and the reviewer rows are stored with it; a call that fails,
\* at the reviewer rows or anywhere else, stores neither the pull request nor
\* a reviewer row.  On an existing id the call fails with PRExists and
\* changes nothing.
C28_CreatePR ==
    [][\A p \in PrIds, a \in Authors :
          CreatePR(p, a) =>
              IF PRExists(pull_requests, p)
              THEN /\ ret'.err = ErrPRExists
                   /\ UNCHANGED <<users, pull_requests, pr_reviewers>>
              ELSE IF ret'.err = Nil
              THEN LET cands == {CreateCandidates(a)[i].UserID :
                                    i \in 1..Len(CreateCandidates(a))}
                       n == Cardinality(cands)
                   IN  /\ PRExists(pull_requests', p)
                       /\ pull_requests'[p] = [AuthorID |-> a, Status |-> PRStatusOpen,
                                               MergedAt |-> NoTime]
                       /\ \A q \in PrIds \ {p} :
                              /\ pull_requests'[q] = pull_requests[q]
                              /\ pr_reviewers'[q] = pr_reviewers[q]
                       /\ users' = users
                       /\ Len(pr_reviewers'[p]) = (IF n < 2 THEN n ELSE 2)
                       /\ \A i, j \in 1..Len(pr_reviewers'[p]) :
                              pr_reviewers'[p][i] = pr_reviewers'[p][j] => i = j
                       /\ Range(pr_reviewers'[p]) \subseteq cands
                       /\ ret'.pr.PullRequestID = p
                       /\ ret'.pr.Status = PRStatusOpen
                       /\ ret'.pr.AssignedReviewers = pr_reviewers'[p]
              ELSE UNCHANGED <<users, pull_requests, pr_reviewers>>]_vars

\* CreatePR has stored pr2 with two of three candidates while pr1 exists and
\* the fourth member of the team is inactive
C28_Witness ==
    /\ ret.op = "CreatePR"
    /\ ret.err = Nil
    /\ ret.pr.PullRequestID = "pr2"
    /\ PRExists(pull_requests, "pr1")
    /\ Len(pr_reviewers["pr2"]) = 2
    /\ ~users["u4"].IsActive
    /\ pr_reviewers["pr2"] = ret.pr.AssignedReviewers

\* C29: freeze under interleaving.  Once a pull request is stored as MERGED
\* no step changes its stored reviewer list, the RemoveReviewer and
\* AddReviewer of a call that read it as OPEN before the merge included.
C29_MergedReviewersFrozen ==
    [][\A p \in PrIds : StoredMerged(p) => pr_reviewers'[p] = pr_reviewers[p]]_vars

\* the slot is inside the unit of work of its call, after its first statement
InUnitOfWork(i) ==
    \/ procs[i].op = "ReassignReviewer" /\ procs[i].pc \in {"add", "commit"}
    \/ procs[i].op = "CreatePR" /\ procs[i].pc \in {"assign", "commit"}

\* what a reader of the committed tables finds while units of work are open:
\* the reviewer a ReassignReviewer has removed is still listed, the pull
\* request a CreatePR has inserted does not exist, every target of the bulk
\* call is still active and still listed where the call has replaced it
NothingObservedEarly ==
    /\ \A i \in Procs :
          InUnitOfWork(i) =>
              IF procs[i].op = "CreatePR"
              THEN /\ ~PRExists(pull_requests, procs[i].prID)
                   /\ pr_reviewers[procs[i].prID] = <<>>
              ELSE Contains(pr_reviewers[procs[i].prID], procs[i].userID)
    /\ call.pc \in InTxPcs =>
          /\ \A t \in Range(call.targets) : users[t].IsActive
          /\ \A k \in 1..Len(call.reassignments) :
                Contains(pr_reviewers[call.reassignments[k].PullRequestID],
                         call.reassignments[k].OldUserID)

\* the step on which a workflow becomes visible shows all of it: the old
\* reviewer leaves with the replacement listed, the pull request appears with
\* its selected reviewers, the targets turn inactive with every replacement made
ObservedWhole ==
    /\ \A i \in Procs :
          (procs'[i] # procs[i] /\ procs[i].op = "ReassignReviewer"
             /\ Contains(pr_reviewers[procs[i].prID], procs[i].userID)
             /\ ~Contains(pr_reviewers'[procs[i].prID], procs[i].userID))
          => Contains(pr_reviewers'[procs[i].prID], procs[i].newUserID)
    /\ \A i \in Procs :
          (procs'[i] # procs[i] /\ procs[i].op = "CreatePR"
             /\ ~PRExists(pull_requests, procs[i].prID)
             /\ PRExists(pull_requests', procs[i].prID))
          => /\ pr_reviewers'[procs[i].prID] = procs[i].reviewerIDs
             /\ pull_requests'[procs[i].prID].Status = PRStatusOpen
    /\ (call.pc \in InTxPcs /\ call' # call
          /\ (users' # users
                \/ \E k \in 1..Len(call.reassignments) :
                      ~Contains(pr_reviewers'[call.reassignments[k].PullRequestID],
                                call.reassignments[k].OldUserID)))
          => /\ call'.pc = "idle"
             /\ ret'.err = Nil
             /\ \A t \in Range(call.targets) : ~users'[t].IsActive
             /\ \A k \in 1..Len(ret'.reassignments) :
                   LET r == ret'.reassignments[k]
                   IN  /\ ~Contains(pr_reviewers'[r.PullRequestID], r.OldUserID)
                       /\ Contains(pr_reviewers'[r.PullRequestID], r.NewUserID)

\* C25: isolation of the multi-step workflows.  While a unit of work of
\* BulkDeactivateTeamMembers, ReassignReviewer or CreatePR is open the
\* committed tables show none of its writes, and the step that makes it
\* visible shows all of them: no reader finds a target deactivated and still
\* listed where it is being replaced, a reviewer removed without the
\* replacement, or a created pull request without its selected reviewers.
C25_Isolation == []NothingObservedEarly /\ [][ObservedWhole]_vars

\* a ReassignReviewer, a CreatePR and the bulk call are in their units of work
\* at once, each with a write that is not committed
C25_Witness ==
    /\ procs["a"].op = "ReassignReviewer" /\ procs["a"].pc = "commit"
    /\ procs["a"].dels # {} /\ procs["a"].adds # <<>>
    /\ procs["b"].op = "CreatePR" /\ procs["b"].pc = "commit"
    /\ procs["b"].row /\ Len(procs["b"].adds) = 2
    /\ call.pc = "add"
    /\ tx.pr_reviewers # pr_reviewers
    /\ tx.users # users

\* C30: when two ReassignReviewer calls on the same open pull request, one
\* for each of its two reviewers, have both returned without error and no
\* other call has written, the pull request has two distinct reviewers.
C30_TwoReviewersKept ==
    (/\ call = IdleCall
     /\ ret = NoRet
     /\ \A i \in Procs : /\ procs[i].op = "ReassignReviewer"
                          /\ procs[i].pc = "returned"
                          /\ procs[i].err = Nil
     /\ procs["a"].prID = procs["b"].prID
     /\ procs["a"].userID # procs["b"].userID)
    => /\ Len(pr_reviewers[procs["a"].prID]) = 2
       /\ Cardinality(Range(pr_reviewers[procs["a"].prID])) = 2

\* C31: when a CreatePR or ReassignReviewer call and a bulk call that
\* overlapped have both returned without error, and no other call has run, no
\* pull request that is not MERGED has a user the bulk call deactivated among
\* its reviewers.
C31_NoDeactivatedReviewerLeft ==
    (/\ call.pc = "idle"
     /\ ret.op = BulkOp
     /\ ret.err = Nil
     /\ procs["b"] = IdleProc
     /\ procs["a"].op \in {"CreatePR", "ReassignReviewer"}
     /\ procs["a"].pc = "returned"
     /\ procs["a"].err = Nil)
    => \A p \in PrIds :
          (PRExists(pull_requests, p) /\ ~StoredMerged(p)) =>
              \A k \in 1..Len(ret.deactivated) :
                  ~Contains(pr_reviewers[p], ret.deactivated[k])

\* the slot has returned from a ReassignReviewer of this reviewer of this pull request
Reassigned(i, prID, userID) ==
    /\ procs[i].op = "ReassignReviewer"
    /\ procs[i].pc = "returned"
    /\ procs[i].prID = prID
    /\ procs[i].userID = userID

\* the bulk call that returned had selected a replacement for this reviewer of
\* this pull request
BulkSelectedFor(prID, userID) ==
    \E k \in 1..Len(ret.calls) - 1 :
        /\ ret.calls[k].op = "SelectReplacementReviewer"
        /\ ret.calls[k].prID = prID
        /\ ret.calls[k].err = Nil
        /\ ret.calls[k + 1].op = "RemoveReviewer"
        /\ ret.calls[k + 1].userID = userID

\* C32: of the calls that replace the same reviewer of the same pull request
\* at most one succeeds.  Two ReassignReviewer calls for it with no other call
\* writing: not both succeed, the one that had selected a replacement and
\* fails does so with NotFound from RemoveReviewer, and with one success the
\* pull request holds the other reviewer and the single replacement.  A
\* ReassignReviewer and a bulk call, with no ReassignReviewer for another
\* reviewer around: the call does not succeed next to a bulk call that
\* recorded a replacement of that reviewer, a bulk call that had
\* selected a replacement and fails at RemoveReviewer fails with NotFound, and
\* a failed bulk call leaves its targets active.
C32_OneReplacementPerReviewer ==
    /\ \A prID \in PrIds, userID \in Users :
          (call = IdleCall /\ ret = NoRet /\ \A i \in Procs : Reassigned(i, prID, userID))
          => /\ \E i \in Procs : procs[i].err # Nil
             /\ \A i \in Procs :
                   (procs[i].err # Nil /\ procs[i].newUserID # "")
                      => procs[i].err = ErrNotFound
             /\ \A i \in Procs :
                   procs[i].err = Nil =>
                      pr_reviewers[prID] =
                         Append(SelectSeq(procs[i].pr.AssignedReviewers,
                                          LAMBDA u : u # procs[i].newUserID),
                                procs[i].newUserID)
    /\ \A i \in Procs, prID \in PrIds, userID \in Users :
          (/\ Reassigned(i, prID, userID)
           /\ \A j \in Procs :
                 procs[j].op = "ReassignReviewer" =>
                     (procs[j].prID = prID /\ procs[j].userID = userID)
           /\ call.pc = "idle"
           /\ ret.op = BulkOp)
          => /\ ~(/\ procs[i].err = Nil
                  /\ ret.err = Nil
                  /\ \E k \in 1..Len(ret.reassignments) :
                        /\ ret.reassignments[k].PullRequestID = prID
                        /\ ret.reassignments[k].OldUserID = userID)
             /\ (ret.err # Nil /\ BulkSelectedFor(prID, userID)
                   /\ ret.calls[Len(ret.calls)].op = "RemoveReviewer")
                  => ret.calls[Len(ret.calls)].err = ErrNotFound
             /\ ret.err # Nil =>
                   \A k \in 1..Len(ret.request.ids) :
                       TrimSpace(ret.request.ids[k]) \in Users =>
                           users[TrimSpace(ret.request.ids[k])].IsActive

\* one ReassignReviewer of u2 on pr1 succeeded, the other one and the bulk
\* call, both past their selection, failed with NotFound at RemoveReviewer
C32_Witness ==
    /\ Reassigned("a", "pr1", "u2") /\ procs["a"].err = Nil
    /\ Reassigned("b", "pr1", "u2") /\ procs["b"].err = ErrNotFound
    /\ procs["b"].newUserID # ""
    /\ call.pc = "idle" /\ ret.op = BulkOp /\ ret.err = ErrNotFound
    /\ BulkSelectedFor("pr1", "u2")
    /\ ret.calls[Len(ret.calls)].op = "RemoveReviewer"
    /\ pr_reviewers["pr1"] = <<"u3", "u4">>

\* each pull request has as many reviewer rows, and as many distinct
\* reviewers, in after as in before
SameReviewerCount(before, after) ==
    \A q \in PrIds :
        /\ Len(after[q]) = Len(before[q])
        /\ Cardinality(Range(after[q])) = Cardinality(Range(before[q]))

\* C33: reviewer count is preserved.  A ReassignReviewer call that succeeds
\* and a bulk call that succeeds, whether it returns before its unit of work
\* or after it, leave every pull request with as many reviewers as it had
\* when the call started.
C33_ReviewerCountPreserved ==
    [][/\ \A p \in PrIds, u \in ToggleUsers :
             (ReassignReviewer(p, u) /\ ret'.err = Nil)
                => SameReviewerCount(pr_reviewers, pr_reviewers')
       /\ (BulkReturns /\ ret'.err = Nil)
             => SameReviewerCount(call.preReviewers, pr_reviewers')
       /\ (call.pc = "idle" /\ call'.pc = "idle" /\ ret'.op = BulkOp)
             => pr_reviewers' = pr_reviewers]_vars

\* ReassignReviewer has replaced the only reviewer of pr2 while pr1 has two
C33_Witness ==
    /\ ret.op = "ReassignReviewer"
    /\ ret.err = Nil
    /\ ret.pr.PullRequestID = "pr2"
    /\ Len(pr_reviewers["pr2"]) = 1
    /\ pr_reviewers["pr2"] = <<ret.newUserID>>
    /\ Len(pr_reviewers["pr1"]) = 2

\* both reviewers the pull request had when the bulk call started are targets
\* of the call, and the pull request is open to the end of the call
BothReviewersReplaced(p) ==
    /\ PRExists(pull_requests, p)
    /\ ~StoredMerged(p)
    /\ Len(call.preReviewers[p]) = 2
    /\ Range(call.preReviewers[p]) \subseteq Range(call.targets)
    /\ \A k \in call.skipped : k.PullRequestID # p

\* the members the future roster offers the pull request: active in it and
\* neither the author nor a reviewer at the start of the call
FutureEligible(p) ==
    {call.futureTeam[k].UserID : k \in {j \in 1..Len(call.futureTeam) :
        /\ call.futureTeam[j].IsActive
        /\ call.futureTeam[j].UserID # pull_requests[p].AuthorID
        /\ ~Contains(call.preReviewers[p], call.futureTeam[j].UserID)}}

\* C34: when both reviewers of a pull request are active targets of one bulk
\* call and the pull request stays open, a successful return
\* carries exactly two Reassignments for it, one per old reviewer, with two
\* different new users, both offered by the future roster, and these two are
\* its stored reviewers; when the future roster offers it fewer than two
\* members the call does not succeed, and fails with NoCandidate unless a
\* database call failed.
C34_BothReviewersReplaced ==
    [][\A p \in PrIds :
          (BulkReturns /\ BothReviewersReplaced(p)) =>
              LET recs == SelectSeq(ret'.reassignments, LAMBDA r : r.PullRequestID = p)
              IN  /\ ret'.err = Nil =>
                        /\ Len(recs) = 2
                        /\ recs[1].NewUserID # recs[2].NewUserID
                        /\ {recs[1].OldUserID, recs[2].OldUserID} = Range(call.preReviewers[p])
                        /\ {recs[1].NewUserID, recs[2].NewUserID} \subseteq FutureEligible(p)
                        /\ Range(pr_reviewers'[p]) = {recs[1].NewUserID, recs[2].NewUserID}
                        /\ Len(pr_reviewers'[p]) = 2
                  /\ Cardinality(FutureEligible(p)) < 2 =>
                        /\ ret'.err # Nil
                        /\ ret'.err # ErrInternal => ret'.err = ErrNoCandidate
      ]_vars

\* a successful bulk call on u3, u2 has replaced both reviewers of pr1 by u4
\* and u5 and the reviewer u2 of pr2
C34_Witness ==
    /\ ret.op = BulkOp
    /\ ret.err = Nil
    /\ ret.deactivated = <<"u3", "u2">>
    /\ Len(ret.reassignments) = 4
    /\ Range(pr_reviewers["pr1"]) = {"u4", "u5"}
    /\ Range(pr_reviewers["pr2"]) = {"u4", "u5"}

\* C35: the merged_at of a pull request stored as MERGED is never changed by
\* a later step, the UpdatePR of a MergePR call that fetched the pull request
\* while it was OPEN included.
C35_MergedAtKept ==
    [][\A p \in PrIds :
          StoredMerged(p) =>
              /\ StoredMerged(p)'
              /\ pull_requests'[p].MergedAt = pull_requests[p].MergedAt]_vars

\* C36: frame of a successful bulk call.  No step of the call changes a row
\* of pull_requests, and a call that returns before its unit of work changes
\* nothing.  When the call returns without error, the users that differ from
\* the start of the call are targets, were active, are inactive now and are
\* in their team; every target is inactive; no user became active; a user
\* that was not requested is as before; and a pull request whose reviewer
\* list differs had a target among its reviewers at the start and has a
\* Reassignment record, with every reviewer that is not a target kept.
C36_BulkFrame ==
    [][/\ (call' # call \/ (ret'.op = BulkOp /\ ret' # ret))
             => pull_requests' = pull_requests
       /\ (call.pc = "idle" /\ call'.pc = "idle" /\ ret'.op = BulkOp /\ ret' # ret)
             => UNCHANGED <<users, pr_reviewers>>
       /\ (BulkReturns /\ ret'.err = Nil) =>
             /\ \A u \in Users :
                   /\ users'[u] # call.preUsers[u] =>
                         /\ Contains(call.targets, u)
                         /\ call.preUsers[u].IsActive
                         /\ users'[u] = [call.preUsers[u] EXCEPT !.IsActive = FALSE]
                   /\ Contains(call.targets, u) => ~users'[u].IsActive
                   /\ users'[u].IsActive => call.preUsers[u].IsActive
                   /\ u \notin RequestedIds(call.request) => users'[u] = call.preUsers[u]
             /\ \A p \in PrIds :
                   pr_reviewers'[p] # call.preReviewers[p] =>
                       /\ PRExists(pull_requests, p)
                       /\ \E t \in Range(call.targets) : Contains(call.preReviewers[p], t)
                       /\ \E k \in 1..Len(ret'.reassignments) :
                             ret'.reassignments[k].PullRequestID = p
                       /\ Range(call.preReviewers[p]) \ Range(call.targets)
                             \subseteq Range(pr_reviewers'[p])
      ]_vars

\* a successful bulk call on u2, u3 deactivated u2 only, u3 being inactive
\* before, replaced u2 on pr1 and left pr2, which u2 does not review, alone
C36_Witness ==
    /\ ret.op = BulkOp
    /\ ret.err = Nil
    /\ ret.deactivated = <<"u2">>
    /\ ret.request.ids = <<"u2", "u3">>
    /\ Len(ret.reassignments) = 1
    /\ ret.reassignments[1].PullRequestID = "pr1"
    /\ PRExists(pull_requests, "pr2")
    /\ ~Contains(pr_reviewers["pr2"], "u2")
    /\ pr_reviewers["pr2"] # <<>>

\* C37: the pull request a successful ReassignReviewer hands back carries the
\* reviewers in the order in which a GetPR issued right after the return
\* reads them.
C37_ReturnedIsPersisted ==
    (ret.op = "ReassignReviewer" /\ ret.err = Nil) =>
        ret.pr.AssignedReviewers =
            GetPR(pull_requests, pr_reviewers, ret.pr.PullRequestID).pr.AssignedReviewers

\* the error at the end of the chain
Innermost(err) == err[Len(err)]

\* C38: GetHTTPStatus gives 404 for NotFound, 400 for TeamExists and
\* InvalidArgument, 409 for PRExists, PRMerged, NotAssigned and NoCandidate
\* and 500 for any other error, and for an error that is or wraps a domain
\* error MapDomainError gives the status of GetHTTPStatus and the code of
\* GetErrorCode.
C38_ErrorMapping ==
    response.pc = "raised" =>
        LET e == Innermost(response.err)
        IN  /\ response.status # 0 =>
                  response.status =
                     CASE e = ErrNotFound -> 404
                       [] e \in {ErrTeamExists, ErrInvalidArgument} -> 400
                       [] e \in {ErrPRExists, ErrPRMerged, ErrNotAssigned, ErrNoCandidate} -> 409
                       [] OTHER -> 500
            /\ (e \in DomainErrors /\ response.mapped.status # 0) =>
                  /\ response.status # 0 => response.mapped.status = response.status
                  /\ response.code # "none" => response.mapped.code = response.code

=============================================================================
